---- MODULE Spec2Model ----
(***************************************************************************)
(* Verification model of the curately backend: the shared Gemini retry     *)
(* helper, the batch scorer, the filter stage and the daily pipeline       *)
(* orchestrator; the interest engine; the digest and rewind generators     *)
(* and the digest generate endpoints.                                      *)
(*                                                                         *)
(* Scores are Python floats in the source.  They are modelled as integers  *)
(* in hundredths (0.3 is 30, 1.0 is 100), which keeps every comparison of  *)
(* the source exact.  Interest weights are modelled in ten-thousandths     *)
(* (1.0 is 10000), a product with the decay factor being rounded down.     *)
(***************************************************************************)
EXTENDS Integers, Sequences, FiniteSets, TLC

VARIABLES
    \* ---- call_gemini_with_retry (backend/services/gemini.py) ----
    r_config,         \* argument `config`: "none" (free text) or "json" (JSON mode)
    r_pc,             \* "call" | "sleep" | "returned" | "raised"
    r_attempt,        \* loop variable `attempt`
    r_last_exception, \* local `last_exception` ("none" is Python None)
    r_events,         \* what the helper did so far: LLM calls and sleeps, in order
    r_result,         \* the value returned, or the exception raised, to the caller
    \* ---- score_articles (backend/services/scorer.py) ----
    s_pc,             \* "start" | "call" | "sleep" | "done" | "raised"
    s_articles,       \* number of candidates handed to score_articles
    s_batch_size,     \* settings.pipeline.scoring_batch_size
    s_batch_start,    \* loop variable `batch_start` (0-based)
    s_attempt,        \* `attempt` of the running _call_gemini_with_retry
    s_assigned,       \* per candidate: the entry the LLM wrote for it (0: none)
    s_batches,        \* per finished batch: [start, size, calls, listed, outcome],
                      \* listed: the indices in the order the LLM wrote them
    s_calls,          \* LLM calls made for the running batch
    all_results,      \* local `all_results`
    \* ---- _stage_filter on its own (backend/services/pipeline.py) ----
    f_pc,             \* "input" | "done"
    f_articles,       \* argument `articles`: the scored articles
    f_threshold,      \* settings.pipeline.relevance_threshold (hundredths)
    f_max_articles,   \* settings.pipeline.max_articles_per_newsletter
    f_filtered,       \* the list returned
    \* ---- run_daily_pipeline (backend/services/pipeline.py) ----
    today,            \* the UTC calendar date, as a day number
    db_articles,      \* the rows of table "articles", in insertion order
    user_interests,   \* the default user's rows of table "user_interests"
    p_threshold,      \* settings.pipeline.relevance_threshold (hundredths)
    p_max_articles,   \* settings.pipeline.max_articles_per_newsletter
    p_runs,           \* pipeline runs started so far
    p_pc,             \* "idle" | "collect" | "score" | "summarize" | "persist" | "done",
                      \* "raised" when the run ended with an exception
    newsletter_date,  \* local `newsletter_date` of the run
    collected,        \* local `collected`
    interests,        \* local `interests`
    scored,           \* local `scored`
    filtered,         \* local `filtered`
    summarized,       \* local `summarized` of _stage_summarize
    p_result,         \* the PipelineResult returned by the run
    p_log,            \* what the run did: calls made, failures met, rows at its start
    \* ---- the interest engine (backend/services/interests.py) ----
    i_now,            \* datetime.now(timezone.utc), in days
    i_store,          \* the user's rows of "user_interests": keyword -> record
    i_liked,          \* the articles with a "like" row in table "interactions"
    i_hist,           \* the last two operations: what was called, when, on which
                      \* store, and what it returned
    \* ---- digest and rewind synthesis (backend/services/digest.py,
    \*      backend/services/rewind.py, backend/routers/digest.py) ----
    y_mode,           \* which entry point is exercised: "digest" | "endpoint" | "rewind"
    g_pc,             \* generate_daily_digest: "idle" | "query" | "llm" | "returned" | "raised"
    g_articles,       \* ids of the articles of the date, by relevance_score descending
    g_reply,          \* what the LLM wrote (the parsed JSON text), <<>> before the call
    g_calls,          \* LLM calls made by generate_daily_digest
    g_result,         \* the pair (content, article ids) returned
    e_pc,             \* generate endpoint: "idle" | "count" | "generating" | "answered"
    e_status,         \* HTTP status answered (0: none yet)
    e_digests,        \* the rows of table "digests"
    w_pc,             \* generate_rewind_report: "idle" | "query" | "llm" | "returned" | "raised"
    w_liked,          \* number of articles liked in the last 7 days
    w_reply,          \* what the LLM wrote, <<>> before the call
    w_calls,          \* LLM calls made by generate_rewind_report
    w_result,         \* the report returned
    \* ---- the rewind trigger surface (backend/routers/rewind.py,
    \*      backend/scheduler.py, persist_rewind_report) ----
    t_pc,             \* "idle" | "generating" | "answered" ("off": not exercised)
    t_surface,        \* "router" (POST /api/rewind/generate) | "scheduler" (weekly job)
    t_user_id,        \* the user the report is generated for
    t_period_end,     \* local `period_end`: today, as a day number
    t_unique,         \* whether table "rewind_reports" enforces a unique
                      \* (user_id, period_end); its schema is not part of the source
    t_reports,        \* the rows of table "rewind_reports"
    t_outcome,        \* what the last trigger reported: an HTTP status for the
                      \* router, "complete" | "failed" (the log line) for the scheduler
    t_runs,           \* triggers started so far
    \* ---- toggle_like, one store operation at a time
    \*      (backend/routers/articles.py, backend/services/interests.py) ----
    l_req,            \* per worker: the request it handles: its position ("idle" |
                      \* "check" | "write" | "fetch" | "upsert" | "done"), article_id,
                      \* `existing_rows` (found), the snapshot `existing`, the loop
                      \* index, and the interest rows at its arrival
    l_rows,           \* per article: its "like" rows in table "interactions"
    l_reqs,           \* per article: the toggle_like requests answered
    l_started,        \* requests started so far
    l_overlap,        \* whether two requests were ever in flight at once
    l_store0,         \* the interest rows before the first request
    \* ---- one asyncio event loop running pipeline runs
    \*      (backend/services/pipeline.py and the services it awaits) ----
    k_prog,           \* per task: the I/O operations its run makes, in order
    k_pc,             \* per task: the operation it is at
    k_state,          \* per task: "ready" | "running" | "blocked" (waiting inside a
                      \* synchronous call, holding the loop) | "suspended" (waiting
                      \* on an awaited call) | "done"
    \* ---- two pipeline runs for one date (backend/services/pipeline.py) ----
    c_db,             \* the rows of table "articles"
    c_settings,       \* settings.pipeline: relevance_threshold,
                      \* max_articles_per_newsletter, scoring_batch_size
    c_run,            \* per run: its position ("collect" | "score" | "persist" |
                      \* "done"), its locals `collected` and `summarized`, and
                      \* whether the other run was under way when it collected
    \* ---- the response parsers on their own (scorer.py, summarizer.py,
    \*      digest.py, rewind.py) ----
    x_pc,             \* "input" | "parsed"
    x_parser,         \* "scoring" | "detailed" | "digest" | "rewind"
    x_batch_size,     \* argument `batch_size` of _parse_scoring_response
    x_reply,          \* what json.loads makes of the text handed to the parser
    x_out             \* what the parser returned, or that it raised

retryVars == <<r_config, r_pc, r_attempt, r_last_exception, r_events, r_result>>
scorerVars == <<s_pc, s_articles, s_batch_size, s_batch_start, s_attempt,
                s_assigned, s_batches, s_calls, all_results>>
filterVars == <<f_pc, f_articles, f_threshold, f_max_articles, f_filtered>>
storeVars == <<today, db_articles, user_interests>>
runVars == <<p_threshold, p_max_articles, p_runs, p_pc, newsletter_date, collected,
             interests, scored, filtered, summarized, p_result, p_log>>
pipeVars == <<storeVars, runVars>>
interestVars == <<i_now, i_store, i_liked, i_hist>>
digestVars == <<g_pc, g_articles, g_reply, g_calls, g_result>>
endpointVars == <<e_pc, e_status, e_digests>>
rewindVars == <<w_pc, w_liked, w_reply, w_calls, w_result>>
synthVars == <<y_mode, digestVars, endpointVars, rewindVars>>
triggerVars == <<t_pc, t_surface, t_user_id, t_period_end, t_unique, t_reports, t_outcome, t_runs>>
likesVars == <<l_req, l_rows, l_reqs, l_started, l_overlap, l_store0>>
loopVars == <<k_prog, k_pc, k_state>>
raceVars == <<c_db, c_settings, c_run>>
parserVars == <<x_pc, x_parser, x_batch_size, x_reply, x_out>>
vars == <<retryVars, scorerVars, filterVars, pipeVars, interestVars, synthVars,
          triggerVars, likesVars, loopVars, raceVars, parserVars>>

\* The variables an action of one component leaves alone.
exceptRetry == <<scorerVars, filterVars, pipeVars, interestVars, synthVars, triggerVars,
    likesVars, loopVars, raceVars, parserVars>>
exceptScorer == <<retryVars, filterVars, pipeVars, interestVars, synthVars, triggerVars,
    likesVars, loopVars, raceVars, parserVars>>
exceptFilter == <<retryVars, scorerVars, pipeVars, interestVars, synthVars, triggerVars,
    likesVars, loopVars, raceVars, parserVars>>
exceptPipe == <<retryVars, scorerVars, filterVars, interestVars, synthVars, triggerVars,
    likesVars, loopVars, raceVars, parserVars>>
exceptInterest == <<retryVars, scorerVars, filterVars, pipeVars, synthVars, triggerVars,
    likesVars, loopVars, raceVars, parserVars>>
exceptSynth == <<retryVars, scorerVars, filterVars, pipeVars, interestVars, triggerVars,
    likesVars, loopVars, raceVars, parserVars>>
exceptTrigger == <<retryVars, scorerVars, filterVars, pipeVars, interestVars,
    likesVars, loopVars, raceVars, parserVars>>
exceptLikes == <<retryVars, scorerVars, filterVars, pipeVars, synthVars, triggerVars,
    loopVars, raceVars, parserVars>>
exceptLoop == <<retryVars, scorerVars, filterVars, pipeVars, interestVars, synthVars,
    triggerVars, likesVars, raceVars, parserVars>>
exceptRace == <<retryVars, scorerVars, filterVars, pipeVars, interestVars, synthVars,
    triggerVars, likesVars, loopVars, parserVars>>
exceptParser == <<retryVars, scorerVars, filterVars, pipeVars, interestVars, synthVars,
    triggerVars, likesVars, loopVars, raceVars>>

----------------------------------------------------------------------------
(* Bounds of the model *)

MaxArticles == 3
MaxBatch == 3
MaxFilterLen == 4
MaxRaw == 2
MaxRuns == 2
MaxClock == 8
MaxDigestArticles == 2
MaxTriggers == 2
MaxLikeRequests == 3

(* Program constants *)

\* gemini.py: _MAX_RETRIES and _BASE_RETRY_DELAY (seconds)
RETRY_MAX_RETRIES == 3
RETRY_BASE_DELAY == 1
\* scorer.py: _MAX_RETRIES
SCORER_MAX_RETRIES == 3
\* pipeline.py: `.limit(20)` of _stage_load_interests
INTERESTS_LIMIT == 20
\* config.py: InterestsConfig.decay_interval_days
DECAY_INTERVAL_DAYS == 7
\* config.py: InterestsConfig.decay_factor, 0.9, in tenths
DECAY_FACTOR_TENTHS == 9
\* config.py: InterestsConfig.like_weight_increment, 1.0, in ten-thousandths
LIKE_WEIGHT_INCREMENT == 10000
\* interests.py: min_weight of apply_time_decay, 0.01, in ten-thousandths
MIN_WEIGHT == 100

----------------------------------------------------------------------------
(* Generic helpers *)

RECURSIVE Pow2(_)
Pow2(k) == IF k = 0 THEN 1 ELSE 2 * Pow2(k - 1)

Min(a, b) == IF a <= b THEN a ELSE b

\* All orderings of the finite set S, as sequences without repetition.
Perms(S) ==
    {p \in [1..Cardinality(S) -> S] : \A i, j \in 1..Cardinality(S) : p[i] = p[j] => i = j}

----------------------------------------------------------------------------
(* Values every variable group holds while another component is analysed *)

RetryIdle ==
    /\ r_config = "none"
    /\ r_pc = "idle"
    /\ r_attempt = 0
    /\ r_last_exception = "none"
    /\ r_events = <<>>
    /\ r_result = [kind |-> "none"]

ScorerIdle ==
    /\ s_pc = "idle"
    /\ s_articles = 0
    /\ s_batch_size = 1
    /\ s_batch_start = 0
    /\ s_attempt = 0
    /\ s_assigned = <<>>
    /\ s_batches = <<>>
    /\ s_calls = 0
    /\ all_results = <<>>

NoResult ==
    [articles_collected |-> 0, articles_scored |-> 0, articles_filtered |-> 0,
     articles_saved |-> 0, newsletter_date |-> 0]

NoLog ==
    [score_calls |-> 0, summary_calls |-> 0, insert_calls |-> 0, rows_before |-> 0,
     collect_raised |-> FALSE, load_failed |-> FALSE, score_raised |-> FALSE,
     summary_failed |-> {}, insert_failed |-> {}]

FilterIdle ==
    /\ f_pc = "idle"
    /\ f_articles = <<>>
    /\ f_threshold = 0
    /\ f_max_articles = 0
    /\ f_filtered = <<>>

PipeIdle ==
    /\ today = 0
    /\ db_articles = <<>>
    /\ user_interests = <<>>
    /\ p_threshold = 0
    /\ p_max_articles = 0
    /\ p_runs = 0
    /\ p_pc = "off"
    /\ newsletter_date = 0
    /\ collected = <<>>
    /\ interests = <<>>
    /\ scored = <<>>
    /\ filtered = <<>>
    /\ summarized = <<>>
    /\ p_result = NoResult
    /\ p_log = NoLog

InterestIdle ==
    /\ i_now = 0
    /\ i_store = <<>>
    /\ i_liked = {}
    /\ i_hist = <<>>

SynthIdle ==
    /\ y_mode = "off"
    /\ g_pc = "off" /\ g_articles = <<>> /\ g_reply = <<>> /\ g_calls = 0
    /\ g_result = <<>>
    /\ e_pc = "off" /\ e_status = 0 /\ e_digests = <<>>
    /\ w_pc = "off" /\ w_liked = 0 /\ w_reply = <<>> /\ w_calls = 0
    /\ w_result = <<>>

TriggerIdle ==
    /\ t_pc = "off" /\ t_surface = "off" /\ t_user_id = 0 /\ t_period_end = 0
    /\ t_unique = FALSE /\ t_reports = <<>> /\ t_outcome = "none" /\ t_runs = 0

LikesIdle ==
    /\ l_req = <<>> /\ l_rows = <<>> /\ l_reqs = <<>> /\ l_started = 0
    /\ l_overlap = FALSE /\ l_store0 = <<>>

LoopIdle == k_prog = <<>> /\ k_pc = <<>> /\ k_state = <<>>

RaceIdle == c_db = <<>> /\ c_settings = <<>> /\ c_run = <<>>

ParserIdle ==
    /\ x_pc = "off" /\ x_parser = "off" /\ x_batch_size = 0 /\ x_reply = <<>>
    /\ x_out = <<>>

----------------------------------------------------------------------------
(* backend/services/gemini.py: call_gemini_with_retry                      *)
(* (scorer.py:187-236 holds a line-for-line copy of this loop, modelled    *)
(* separately below as part of score_articles.)                            *)

\* What client.aio.models.generate_content can hand back as response.text;
\* "<None>" stands for Python None.
ResponseTexts == {"<None>", "", "{\"results\": []}"}

\* The exceptions the underlying call can raise.
LlmExceptions == {"TimeoutError", "ServerError", "RuntimeError"}

\* `response.text or ""`
TextOrEmpty(t) == IF t = "<None>" THEN "" ELSE t

RetryDelayDoubled(attempt) == RETRY_BASE_DELAY * Pow2(attempt + 1)

\* `delay = _BASE_RETRY_DELAY * (2**attempt)`
RetryDelay(attempt) == RETRY_BASE_DELAY * Pow2(attempt)

RetryInit ==
    /\ r_config \in {"none", "json"}
    /\ r_pc = "call"
    /\ r_attempt = 0
    /\ r_last_exception = "none"
    /\ r_events = <<>>
    /\ r_result = [kind |-> "none"]
    /\ ScorerIdle /\ FilterIdle /\ PipeIdle /\ InterestIdle /\ SynthIdle
    /\ TriggerIdle /\ LikesIdle /\ LoopIdle /\ RaceIdle /\ ParserIdle

\* The awaited generate_content call returns: `return response.text or ""`.
RetryCallSucceeds ==
    /\ r_pc = "call"
    /\ \E t \in ResponseTexts :
        /\ r_events' = Append(r_events, [e |-> "call", config |-> r_config, ok |-> TRUE, text |-> t])
        /\ r_result' = [kind |-> "returned", text |-> TextOrEmpty(t)]
    /\ r_pc' = "returned"
    /\ UNCHANGED <<r_config, r_attempt, r_last_exception, exceptRetry>>

\* The awaited call raises: the except branch.  Before the last attempt it
\* computes the delay and awaits asyncio.sleep(delay); on the last attempt
\* the loop ends and `raise last_exception` runs.
RetryCallFails ==
    /\ r_pc = "call"
    /\ \E x \in LlmExceptions :
        /\ r_last_exception' = x
        /\ IF r_attempt < RETRY_MAX_RETRIES - 1
           THEN /\ r_events' = r_events \o
                        << [e |-> "call", config |-> r_config, ok |-> FALSE, exc |-> x],
                           [e |-> "sleep", delay |-> RetryDelay(r_attempt)] >>
                /\ r_pc' = "sleep"
                /\ r_result' = r_result
           ELSE /\ r_events' = Append(r_events,
                                     [e |-> "call", config |-> r_config, ok |-> FALSE, exc |-> x])
                /\ r_pc' = "raised"
                /\ r_result' = [kind |-> "raised", exc |-> x]
    /\ UNCHANGED <<r_config, r_attempt, exceptRetry>>

\* asyncio.sleep returns; the for loop takes the next attempt.
RetrySleepDone ==
    /\ r_pc = "sleep"
    /\ r_attempt' = r_attempt + 1
    /\ r_pc' = "call"
    /\ UNCHANGED <<r_config, r_last_exception, r_events, r_result, exceptRetry>>

RetryNext ==
    \/ RetryCallSucceeds
    \/ RetryCallFails
    \/ RetrySleepDone

SpecRetry == RetryInit /\ [][RetryNext]_vars

----------------------------------------------------------------------------
(* Properties of call_gemini_with_retry *)

CallEvents == SelectSeq(r_events, LAMBDA ev : ev.e = "call")
SleepEvents == SelectSeq(r_events, LAMBDA ev : ev.e = "sleep")
FailedCalls == SelectSeq(CallEvents, LAMBDA ev : ~ev.ok)

----------------------------------------------------------------------------
(* JSON values, as json.loads produces them.  A value is a tagged record;  *)
(* numbers are integers (a relevance score is held in hundredths).         *)

JNum(n) == [t |-> "num", v |-> n]
JStr(x) == [t |-> "str", v |-> x]
JBool(b) == [t |-> "bool", v |-> b]
JList(q) == [t |-> "list", v |-> q]
JAbsent == [t |-> "absent"]        \* the key is not in the dict
JDict(index, score, categories, keywords) ==
    [t |-> "dict", index |-> index, relevance_score |-> score,
     categories |-> categories, keywords |-> keywords]

Digits == <<"0", "1", "2", "3", "4", "5", "6", "7", "8", "9">>

\* Python str(x) of a JSON scalar.
PyStr(x) ==
    CASE x.t = "str" -> x.v
      [] x.t = "num" -> IF x.v \in 0..9 THEN Digits[x.v + 1] ELSE "<number>"
      [] x.t = "bool" -> IF x.v THEN "True" ELSE "False"
      [] OTHER -> "None"

----------------------------------------------------------------------------
(* backend/services/scorer.py: _fallback_result, _parse_scoring_response   *)

FallbackResult(index) ==
    [index |-> index, relevance_score |-> 0, categories |-> <<>>, keywords |-> <<>>]

FallbackList(batch_size) == [k \in 1..batch_size |-> FallbackResult(k - 1)]

\* `r.get("index") == i` (Python compares True == 1 and False == 0)
IndexMatches(r, i) ==
    \/ r.index.t = "num" /\ r.index.v = i
    \/ r.index.t = "bool" /\ (IF r.index.v THEN 1 ELSE 0) = i

FindMatchByPosition(results_raw, i, pos) ==
    IF i + 1 > Len(results_raw)
    THEN [raised |-> FALSE, found |-> FALSE, entry |-> JAbsent]
    ELSE IF results_raw[i + 1].t # "dict"
         THEN [raised |-> TRUE, found |-> FALSE, entry |-> JAbsent]
         ELSE [raised |-> FALSE, found |-> TRUE, entry |-> results_raw[i + 1]]

\* `next((r for r in results_raw if r.get("index") == i), None)`, scanning
\* from position pos: the first entry whose index is i.  An entry that is no
\* dict has no .get, and reaching it raises AttributeError.
RECURSIVE FindMatch(_, _, _)
FindMatch(results_raw, i, pos) ==
    IF pos > Len(results_raw)
    THEN [raised |-> FALSE, found |-> FALSE, entry |-> JAbsent]
    ELSE LET r == results_raw[pos]
         IN  IF r.t # "dict"
             THEN [raised |-> TRUE, found |-> FALSE, entry |-> JAbsent]
             ELSE IF IndexMatches(r, i)
                  THEN [raised |-> FALSE, found |-> TRUE, entry |-> r]
                  ELSE FindMatch(results_raw, i, pos + 1)

\* `[str(c) for c in x]` after `if not isinstance(x, list): x = []`, where x
\* is `matched.get(key, [])`.
StrList(field) ==
    IF field.t # "list" THEN <<>> ELSE [j \in 1..Len(field.v) |-> PyStr(field.v[j])]

\* Lines 163-165 and `float(score)`: isinstance(score, (int, float)) accepts
\* a bool, since bool is a subclass of int, and float(True) is 1.0.
ParsedScore(field) ==
    LET score == IF field.t = "absent" THEN JNum(0) ELSE field
        numeric == score.t \in {"num", "bool"}
        val == IF score.t = "bool" THEN (IF score.v THEN 100 ELSE 0)
               ELSE IF score.t = "num" THEN score.v ELSE 0
    IN  IF ~numeric \/ val < 0 \/ val > 100 THEN 0 ELSE val

\* One iteration of the loop of lines 157-182.
ParsedResult(results_raw, i) ==
    LET m == FindMatch(results_raw, i, 1)
    IN  IF ~m.found
        THEN FallbackResult(i)
        ELSE [index |-> i,
              relevance_score |-> ParsedScore(m.entry.relevance_score),
              categories |-> StrList(m.entry.categories),
              keywords |-> StrList(m.entry.keywords)]

\* response_text is [kind |-> "not_json"], or [kind |-> "json", data |-> value].
\* The outcome is [raised, results]: raised when an exception leaves the function.
ParseScoringResponse(response_text, batch_size) ==
    IF response_text.kind # "json"
    THEN [raised |-> FALSE, results |-> FallbackList(batch_size)]    \* JSONDecodeError
    ELSE LET data == response_text.data
         IN  IF data.t # "dict"
             THEN [raised |-> TRUE, results |-> <<>>]               \* data.get: AttributeError
             ELSE IF data.results.t # "list"
                  THEN [raised |-> FALSE, results |-> FallbackList(batch_size)]
                  ELSE IF \E i \in 0..(batch_size - 1) :
                              FindMatch(data.results.v, i, 1).raised
                       THEN [raised |-> TRUE, results |-> <<>>]
                       ELSE [raised |-> FALSE,
                             results |-> [k \in 1..batch_size |->
                                             ParsedResult(data.results.v, k - 1)]]

----------------------------------------------------------------------------
(* What the LLM can answer to a scoring prompt                             *)

\* The contents the LLM can give one entry of "results": well-formed ones
\* (1, 2) and malformed ones (3..6).
EntryContents ==
    << [score |-> JNum(80), categories |-> JList(<<JStr("AI/ML")>>),
        keywords |-> JList(<<JStr("gpt")>>)],
       [score |-> JNum(30), categories |-> JList(<<JStr("Web")>>),
        keywords |-> JList(<<JStr("react"), JNum(5)>>)],
       [score |-> JNum(150), categories |-> JList(<<JStr("AI/ML")>>),
        keywords |-> JList(<<JStr("gpt")>>)],
       [score |-> JNum(-30), categories |-> JStr("Security"),
        keywords |-> JAbsent],
       [score |-> JStr("high"), categories |-> JList(<<>>),
        keywords |-> JStr("gpt")],
       [score |-> JBool(TRUE), categories |-> JList(<<JStr("Web")>>),
        keywords |-> JList(<<>>)] >>

NumContents == Len(EntryContents)

Entry(index, c) ==
    JDict(JNum(index), EntryContents[c].score, EntryContents[c].categories,
          EntryContents[c].keywords)

\* A reply in the requested shape: the LLM writes an entry for the indices
\* of `present` (content[k] for index k) and lists them in the order `order`.
ShapedText(content, order) ==
    [kind |-> "json",
     data |-> [t |-> "dict",
               results |-> JList([j \in 1..Len(order) |->
                                     Entry(order[j], content[order[j]])])]]

\* Replies that are not in the requested shape.
UnshapedTexts ==
    { [kind |-> "none"],                                   \* response.text is None
      [kind |-> "not_json"],
      [kind |-> "json", data |-> JList(<<>>)],             \* top level is no object
      [kind |-> "json", data |-> [t |-> "dict", results |-> JAbsent]],
      [kind |-> "json", data |-> [t |-> "dict", results |-> JStr("x")]],
      [kind |-> "json", data |-> [t |-> "dict", results |-> JList(<<JStr("x")>>)]] }

\* `response.text or ""`: None becomes "", which json.loads rejects.
ScorerTextOrEmpty(text) == IF text.kind = "none" THEN [kind |-> "not_json"] ELSE text

----------------------------------------------------------------------------
(* backend/services/scorer.py: score_articles with _call_gemini_with_retry *)

ScorerInit ==
    /\ s_pc = "start"
    /\ s_articles \in 0..MaxArticles
    /\ s_batch_size \in 1..MaxBatch
    /\ s_batch_start = 0
    /\ s_attempt = 0
    /\ s_assigned = [i \in 1..s_articles |-> 0]
    /\ s_batches = <<>>
    /\ s_calls = 0
    /\ all_results = <<>>
    /\ RetryIdle /\ FilterIdle /\ PipeIdle /\ InterestIdle /\ SynthIdle
    /\ TriggerIdle /\ LikesIdle /\ LoopIdle /\ RaceIdle /\ ParserIdle

\* len(batch) for `articles[batch_start : batch_start + batch_size]`
BatchLen == Min(s_batch_size, s_articles - s_batch_start)

\* `all_results.extend(results)` and the next iteration of
\* `for batch_start in range(0, len(articles), batch_size)`.
NextBatch(results, assigned, listed, outcome) ==
    /\ all_results' = all_results \o results
    /\ s_assigned' = [i \in 1..s_articles |->
                         IF i - 1 - s_batch_start \in 0..(BatchLen - 1)
                         THEN assigned[i - 1 - s_batch_start]
                         ELSE s_assigned[i]]
    /\ s_batches' = Append(s_batches,
                           [start |-> s_batch_start, size |-> BatchLen,
                            calls |-> s_calls + 1, listed |-> listed,
                            outcome |-> outcome])
    /\ s_batch_start' = s_batch_start + s_batch_size
    /\ s_attempt' = 0
    /\ s_calls' = 0
    /\ s_pc' = IF s_batch_start + s_batch_size >= s_articles THEN "done" ELSE "call"

\* Lines 258-268: empty input returns []; otherwise the client is created,
\* which raises when it cannot be constructed (outside every try block).
ScoreBegin ==
    /\ s_pc = "start"
    /\ IF s_articles = 0
       THEN s_pc' = "done"
       ELSE \E created \in BOOLEAN : s_pc' = IF created THEN "call" ELSE "raised"
    /\ UNCHANGED <<s_articles, s_batch_size, s_batch_start, s_attempt, s_assigned,
                   s_batches, s_calls, all_results, exceptScorer>>

\* The text returned by the helper is parsed; an exception of the parser is
\* caught by the `except Exception` of score_articles (lines 288-294).
BatchResults(text) ==
    LET parsed == ParseScoringResponse(ScorerTextOrEmpty(text), BatchLen)
    IN  IF parsed.raised THEN FallbackList(BatchLen) ELSE parsed.results

\* An attempt succeeds: the helper returns the text, score_articles parses
\* it and moves to the next batch.
ScoreCallSucceeds ==
    /\ s_pc = "call"
    /\ \/ \E text \in UnshapedTexts :
            NextBatch(BatchResults(text), [k \in 0..(BatchLen - 1) |-> 0], <<>>, "returned")
       \/ \E content \in [0..(BatchLen - 1) -> 0..NumContents] :
            \E order \in Perms({k \in 0..(BatchLen - 1) : content[k] # 0}) :
                NextBatch(BatchResults(ShapedText(content, order)), content, order,
                          "returned")
    /\ UNCHANGED <<s_articles, s_batch_size, exceptScorer>>

ScoreCallFailsAbort ==
    /\ s_pc = "call"
    /\ IF s_attempt < SCORER_MAX_RETRIES - 1
       THEN /\ s_pc' = "sleep"
            /\ s_calls' = s_calls + 1
            /\ UNCHANGED <<s_batch_start, s_attempt, s_assigned, s_batches, all_results>>
       ELSE /\ s_pc' = "raised"
            /\ s_calls' = s_calls + 1
            /\ UNCHANGED <<s_batch_start, s_attempt, s_assigned, s_batches, all_results>>
    /\ UNCHANGED <<s_articles, s_batch_size, exceptScorer>>

\* An attempt raises.  Before the last attempt the helper awaits
\* asyncio.sleep; on the last one it re-raises, and the except branch of
\* score_articles (lines 289-294) substitutes the fallback for the batch.
ScoreCallFails ==
    /\ s_pc = "call"
    /\ IF s_attempt < SCORER_MAX_RETRIES - 1
       THEN /\ s_pc' = "sleep"
            /\ s_calls' = s_calls + 1
            /\ UNCHANGED <<s_batch_start, s_attempt, s_assigned, s_batches, all_results>>
       ELSE NextBatch(FallbackList(BatchLen), [k \in 0..(BatchLen - 1) |-> 0], <<>>,
                      "exhausted")
    /\ UNCHANGED <<s_articles, s_batch_size, exceptScorer>>

ScoreSleepDone ==
    /\ s_pc = "sleep"
    /\ s_attempt' = s_attempt + 1
    /\ s_pc' = "call"
    /\ UNCHANGED <<s_articles, s_batch_size, s_batch_start, s_assigned, s_batches,
                   s_calls, all_results, exceptScorer>>

ScorerNext ==
    \/ ScoreBegin
    \/ ScoreCallSucceeds
    \/ ScoreCallFails
    \/ ScoreSleepDone

SpecScorer == ScorerInit /\ [][ScorerNext]_vars

----------------------------------------------------------------------------
(* Properties of score_articles *)

\* The values the LLM gave candidate i, when it wrote a well-formed entry.
HoldsAssigned(i) ==
    /\ s_assigned[i] = 1 =>
          /\ all_results[i].relevance_score = 80
          /\ all_results[i].categories = <<"AI/ML">>
          /\ all_results[i].keywords = <<"gpt">>
    /\ s_assigned[i] = 2 =>
          /\ all_results[i].relevance_score = 30
          /\ all_results[i].categories = <<"Web">>
          /\ all_results[i].keywords = <<"react", "5">>

\* Number of batches of `range(0, len(articles), batch_size)`.
NumBatches == (s_articles + s_batch_size - 1) \div s_batch_size

\* C1: score_articles returns exactly one result per candidate, and result i
\* holds the score, categories and keywords the LLM assigned to candidate i,
\* in whatever order the LLM listed the entries of each batch and for any
\* number of batches.
C1_PositionalResults ==
    /\ Len(all_results) = Min(s_batch_start, s_articles)
    /\ s_pc = "done" => Len(all_results) = s_articles
    /\ \A i \in 1..Len(all_results) :
          /\ all_results[i].index = (i - 1) % s_batch_size
          /\ HoldsAssigned(i)

\* Three candidates in two batches; the LLM listed the first batch in
\* descending index order, and every candidate got a well-formed entry.
C1_Witness ==
    /\ s_pc = "done"
    /\ s_articles = 3
    /\ Len(s_batches) = 2
    /\ s_batches[1].listed = <<1, 0>>
    /\ s_assigned = <<1, 2, 2>>

\* C2: in a parsed batch, a position without an entry gets the fallback
\* record, a position whose score is non-numeric or outside [0,1] gets score
\* 0.0, and every other position keeps its own values.
C2_PerPositionFallback ==
    \A i \in 1..Len(all_results) :
        /\ s_assigned[i] = 0 =>
              all_results[i] = [index |-> (i - 1) % s_batch_size, relevance_score |-> 0,
                                categories |-> <<>>, keywords |-> <<>>]
        /\ s_assigned[i] # 0 =>
              LET sc == EntryContents[s_assigned[i]].score
              IN  (sc.t # "num" \/ sc.v < 0 \/ sc.v > 100) =>
                      all_results[i].relevance_score = 0
        /\ HoldsAssigned(i)

\* C3: when every retry of one batch fails, score_articles raises nothing,
\* the batch gets the all-zero fallback records, and every other batch still
\* gets its LLM call and its parsed results.
C3_BatchFallback ==
    /\ s_pc = "raised" => s_calls = 0 /\ s_batches = <<>>
    /\ \A b \in 1..Len(s_batches) :
          /\ s_batches[b].calls >= 1
          /\ s_batches[b].start = (b - 1) * s_batch_size
          /\ s_batches[b].outcome = "exhausted" =>
                /\ s_batches[b].calls = 3
                /\ \A k \in 0..(s_batches[b].size - 1) :
                      all_results[s_batches[b].start + k + 1] =
                          [index |-> k, relevance_score |-> 0,
                           categories |-> <<>>, keywords |-> <<>>]
          /\ s_batches[b].outcome = "returned" =>
                \A k \in 0..(s_batches[b].size - 1) :
                    HoldsAssigned(s_batches[b].start + k + 1)
    /\ s_pc = "done" => Len(s_batches) = NumBatches /\ Len(all_results) = s_articles

\* The first batch exhausted its retries; the second was called and parsed.
C3_Witness ==
    /\ s_pc = "done"
    /\ Len(s_batches) = 2
    /\ s_batches[1].outcome = "exhausted"
    /\ s_batches[2].outcome = "returned"
    /\ s_assigned[s_articles] = 1
    /\ all_results[s_articles].relevance_score = 80

----------------------------------------------------------------------------
(* backend/services/pipeline.py: _stage_filter                             *)

InsertDescUnstable(sorted, a) ==
    LET before == SelectSeq(sorted, LAMBDA x : x.relevance_score > a.relevance_score)
        after == SelectSeq(sorted, LAMBDA x : x.relevance_score <= a.relevance_score)
    IN  before \o <<a>> \o after

\* list.sort(key=score, reverse=True) is stable: an element goes behind
\* every element already placed whose score is at least its own.
InsertDesc(sorted, a) ==
    LET before == SelectSeq(sorted, LAMBDA x : x.relevance_score >= a.relevance_score)
        after == SelectSeq(sorted, LAMBDA x : x.relevance_score < a.relevance_score)
    IN  before \o <<a>> \o after

RECURSIVE SortByScoreDesc(_)
SortByScoreDesc(articles) ==
    IF articles = <<>> THEN <<>>
    ELSE InsertDesc(SortByScoreDesc(SubSeq(articles, 1, Len(articles) - 1)),
                    articles[Len(articles)])

StageFilterUncapped(articles, threshold, max_articles) ==
    SortByScoreDesc(SelectSeq(articles, LAMBDA a : a.relevance_score >= threshold))

\* Lines 202-206.
StageFilter(articles, threshold, max_articles) ==
    LET above_threshold == SelectSeq(articles, LAMBDA a : a.relevance_score >= threshold)
        sorted == SortByScoreDesc(above_threshold)
    IN  SubSeq(sorted, 1, Min(max_articles, Len(sorted)))

\* The scores and settings the filter is exercised with.
FilterScores == {20, 40, 60, 90}
FilterThresholds == {30, 60}

\* Scored articles in collection order; source_url is the position.
ScoredLists ==
    UNION { [1..n -> FilterScores] : n \in 0..MaxFilterLen }

FilterInit ==
    /\ f_pc = "input"
    /\ \E scores \in ScoredLists :
          f_articles = [k \in 1..Len(scores) |->
                           [source_url |-> k, relevance_score |-> scores[k]]]
    /\ f_threshold \in FilterThresholds
    /\ f_max_articles \in 1..MaxFilterLen
    /\ f_filtered = <<>>
    /\ RetryIdle /\ ScorerIdle /\ PipeIdle /\ InterestIdle /\ SynthIdle
    /\ TriggerIdle /\ LikesIdle /\ LoopIdle /\ RaceIdle /\ ParserIdle

ApplyFilter ==
    /\ f_pc = "input"
    /\ f_filtered' = StageFilter(f_articles, f_threshold, f_max_articles)
    /\ f_pc' = "done"
    /\ UNCHANGED <<f_articles, f_threshold, f_max_articles, exceptFilter>>

FilterNext == ApplyFilter

SpecFilter == FilterInit /\ [][FilterNext]_vars

----------------------------------------------------------------------------
(* Properties of _stage_filter *)

\* a ranks before b: higher score, or equal score and collected earlier.
RanksBefore(a, b) ==
    \/ a.relevance_score > b.relevance_score
    \/ a.relevance_score = b.relevance_score /\ a.source_url < b.source_url

FilterQualified ==
    {k \in 1..Len(f_articles) : f_articles[k].relevance_score >= f_threshold}

\* C5: the filter returns exactly the articles with score >= threshold,
\* ordered by score descending with equal scores in collection order, cut to
\* the first maxCount; scores [0.9, 0.2, 0.6, 0.4] with threshold 0.3 and
\* maxCount 2 give [0.9, 0.6].
C5_FilterCorrect ==
    f_pc = "done" =>
        /\ Len(f_filtered) = Min(f_max_articles, Cardinality(FilterQualified))
        /\ \A j \in 1..Len(f_filtered) :
              /\ f_filtered[j].source_url \in FilterQualified
              /\ f_filtered[j] = f_articles[f_filtered[j].source_url]
        /\ \A j, k \in 1..Len(f_filtered) :
              j < k => RanksBefore(f_filtered[j], f_filtered[k])
        /\ \A q \in FilterQualified :
              (\A j \in 1..Len(f_filtered) : f_filtered[j].source_url # q) =>
                  \A j \in 1..Len(f_filtered) : RanksBefore(f_filtered[j], f_articles[q])
        /\ ( /\ [k \in 1..Len(f_articles) |-> f_articles[k].relevance_score]
                    = <<90, 20, 60, 40>>
             /\ f_threshold = 30
             /\ f_max_articles = 2 )
           => [j \in 1..Len(f_filtered) |-> f_filtered[j].relevance_score] = <<90, 60>>

\* Scores [0.9, 0.2, 0.6, 0.4], threshold 0.3, maxCount 2: the first and the
\* third article are returned.
C5_Witness ==
    /\ f_pc = "done"
    /\ [k \in 1..Len(f_articles) |-> f_articles[k].relevance_score] = <<90, 20, 60, 40>>
    /\ f_threshold = 30
    /\ f_max_articles = 2
    /\ [j \in 1..Len(f_filtered) |-> f_filtered[j].source_url] = <<1, 3>>

----------------------------------------------------------------------------
(* The collaborators of the pipeline                                       *)

\* Python None and a Python str (a sequence of tokens; " " is whitespace).
PyNone == [none |-> TRUE, s |-> <<>>]
PyText(tokens) == [none |-> FALSE, s |-> tokens]

\* The source URLs the feeds can carry.
Urls == {"a", "b", "c"}

\* What the active feeds deliver in one collection, in feed order; two
\* entries may carry the same link.
RawLists == UNION { [1..n -> Urls] : n \in 0..MaxRaw }

\* The relevance scores score_articles can return.
ScoreOutputs == {0, 50, 90}

\* Table "articles": source_url is a unique key, so an insert of a URL that
\* has a row is refused; an insert can also fail for a transient reason.
InsertRowNoKey(db, row, fails) ==
    IF fails THEN [ok |-> FALSE, db |-> db] ELSE [ok |-> TRUE, db |-> Append(db, row)]

InsertRow(db, row, fails) ==
    IF fails \/ \E i \in 1..Len(db) : db[i].source_url = row.source_url
    THEN [ok |-> FALSE, db |-> db]
    ELSE [ok |-> TRUE, db |-> Append(db, row)]

\* backend/services/collector.py: _deduplicate
Deduplicate(db, articles) ==
    LET existing_urls == {db[i].source_url : i \in 1..Len(db)}
    IN  SelectSeq(articles, LAMBDA a : a.source_url \notin existing_urls)

\* backend/services/collector.py: collect_articles, given what the feeds
\* delivered (no feed, or no entry, returns [] before the store is asked).
CollectArticles(db, raw) ==
    IF raw = <<>> THEN <<>>
    ELSE Deduplicate(db, [k \in 1..Len(raw) |-> [source_url |-> raw[k]]])

\* The text the LLM writes as the summary of the article at url.
LlmSummary(url) == <<" ", "summary of", url, " ">>

\* str.strip()
RECURSIVE Strip(_)
Strip(tokens) ==
    IF tokens = <<>> THEN <<>>
    ELSE IF Head(tokens) = " " THEN Strip(Tail(tokens))
    ELSE IF tokens[Len(tokens)] = " " THEN Strip(SubSeq(tokens, 1, Len(tokens) - 1))
    ELSE tokens

----------------------------------------------------------------------------
(* backend/services/pipeline.py: the stages                                *)

RECURSIVE SortByWeightDesc(_)
SortByWeightDesc(rows) ==
    IF rows = <<>> THEN <<>>
    ELSE LET last == rows[Len(rows)]
             rest == SortByWeightDesc(SubSeq(rows, 1, Len(rows) - 1))
         IN  SelectSeq(rest, LAMBDA x : x.weight >= last.weight) \o <<last>>
                 \o SelectSeq(rest, LAMBDA x : x.weight < last.weight)

\* _stage_load_interests: the top 20 interests by weight, or [] when the
\* default user is missing or a query raises.
StageLoadInterests(outcome) ==
    IF outcome = "loaded"
    THEN LET ordered == SortByWeightDesc(user_interests)
             top == SubSeq(ordered, 1, Min(INTERESTS_LIMIT, Len(ordered)))
         IN  [i \in 1..Len(top) |-> [keyword |-> top[i].keyword, weight |-> top[i].weight]]
    ELSE <<>>

\* _stage_score, lines 158-165: the results of score_articles, or zero
\* scores for every article when score_articles raises.
ScoreResults(raised, results, n) ==
    IF raised THEN [k \in 1..n |-> [index |-> k - 1, relevance_score |-> 0]]
    ELSE [k \in 1..n |-> [index |-> k - 1, relevance_score |-> results[k]]]

\* _stage_score, lines 167-183.  (categories and keywords travel with the
\* score and are left out of the pipeline's article records.)
MergeScores(articles, score_results) ==
    [idx \in 1..Len(articles) |->
        [source_url |-> articles[idx].source_url,
         relevance_score |-> IF idx <= Len(score_results)
                             THEN score_results[idx].relevance_score
                             ELSE 0]]

\* _stage_summarize, one iteration: the summary the article gets.
ArticleSummary(url, summarizer_ok) ==
    IF summarizer_ok THEN PyText(Strip(LlmSummary(url))) ELSE PyText(<<>>)

PersistRowsStopAtFailure(db, articles, date, failing, k) ==
    LET firstBad == {j \in 1..Len(articles) :
                        \/ j \in failing
                        \/ \E i \in 1..Len(db) : db[i].source_url = articles[j].source_url
                        \/ \E i \in 1..(j - 1) : articles[i].source_url = articles[j].source_url}
        stop == IF firstBad = {} THEN Len(articles) + 1
                ELSE CHOOSE j \in firstBad : \A x \in firstBad : j <= x
    IN  [db |-> db \o [j \in 1..(stop - 1) |->
                          [source_url |-> articles[j].source_url,
                           summary |-> articles[j].summary,
                           newsletter_date |-> date]],
         saved |-> stop - 1]

\* _stage_persist, lines 257-286, from article k on: one insert per article;
\* a failed insert is logged and the loop goes on.
RECURSIVE PersistRows(_, _, _, _, _)
PersistRows(db, articles, date, failing, k) ==
    IF k > Len(articles) THEN [db |-> db, saved |-> 0]
    ELSE LET row == [source_url |-> articles[k].source_url,
                     summary |-> articles[k].summary,
                     newsletter_date |-> date]
             ins == InsertRow(db, row, k \in failing)
             rest == PersistRows(ins.db, articles, date, failing, k + 1)
         IN  [db |-> rest.db, saved |-> (IF ins.ok THEN 1 ELSE 0) + rest.saved]

NeverShortCircuit(articles) == FALSE

\* run_daily_pipeline, line 57: `if not collected`
ShortCircuit(articles) == articles = <<>>

----------------------------------------------------------------------------
(* backend/services/pipeline.py: run_daily_pipeline                        *)

\* The days on which the pipeline can run.
Days == {1, 2}

GuardedButPersist == {"collect", "load", "score", "summarize"}

\* The stages whose work runs inside `try: ... except Exception:`:
\* _stage_collect (lines 102-108), _stage_load_interests (118-144),
\* _stage_score (158-165), each article of _stage_summarize (227-236) and
\* each insert of _stage_persist (277-283).
StageGuarded == {"collect", "load", "score", "summarize", "persist"}

\* Whether a failure inside the stage leaves run_daily_pipeline as an
\* exception.
Propagates(stage, failed) == failed /\ stage \notin StageGuarded

PipelineThresholds == {0, 30}
PipelineCaps == {1, 2}
LoadOutcomes == {"loaded", "no_user", "error"}

PipeInit ==
    /\ today = 1
    /\ db_articles = <<>>
    /\ user_interests = <<[keyword |-> "rust", weight |-> 10, updated_at |-> -10],
                          [keyword |-> "ai", weight |-> 30, updated_at |-> 0]>>
    /\ p_threshold \in PipelineThresholds
    /\ p_max_articles \in PipelineCaps
    /\ p_runs = 0
    /\ p_pc = "idle"
    /\ newsletter_date = 0
    /\ collected = <<>>
    /\ interests = <<>>
    /\ scored = <<>>
    /\ filtered = <<>>
    /\ summarized = <<>>
    /\ p_result = NoResult
    /\ p_log = NoLog
    /\ RetryIdle /\ ScorerIdle /\ FilterIdle /\ InterestIdle /\ SynthIdle
    /\ TriggerIdle /\ LikesIdle /\ LoopIdle /\ RaceIdle /\ ParserIdle

\* A day passes between two runs.
Tick ==
    /\ p_pc \in {"idle", "done"}
    /\ today + 1 \in Days
    /\ today' = today + 1
    /\ UNCHANGED <<db_articles, user_interests, p_threshold, p_max_articles, p_runs, runVars>>
    /\ UNCHANGED exceptPipe

\* run_daily_pipeline, lines 48-53: the run starts and takes today's date.
StartRun ==
    /\ p_pc \in {"idle", "done"}
    /\ p_runs < MaxRuns
    /\ p_runs' = p_runs + 1
    /\ newsletter_date' = today
    /\ collected' = <<>>
    /\ interests' = <<>>
    /\ scored' = <<>>
    /\ filtered' = <<>>
    /\ summarized' = <<>>
    /\ p_result' = NoResult
    /\ p_log' = [NoLog EXCEPT !.rows_before = Len(db_articles)]
    /\ p_pc' = "collect"
    /\ UNCHANGED <<today, db_articles, user_interests, p_threshold, p_max_articles>>
    /\ UNCHANGED exceptPipe

\* Lines 55-68: stage 1 (a raising collector yields []), the short-circuit
\* on an empty collection, and stage 2.
Collect ==
    /\ p_pc = "collect"
    /\ \E raised \in BOOLEAN, raw \in RawLists, load \in LoadOutcomes :
          LET articles == IF raised THEN <<>> ELSE CollectArticles(db_articles, raw)
          IN  /\ collected' = articles
              /\ p_log' = [p_log EXCEPT !.collect_raised = raised,
                                        !.load_failed = ~ShortCircuit(articles)
                                                            /\ load = "error"]
              /\ IF \/ Propagates("collect", raised)
                    \/ Propagates("load", ~ShortCircuit(articles) /\ load = "error")
                 THEN /\ p_result' = p_result
                      /\ interests' = interests
                      /\ p_pc' = "raised"
                 ELSE IF ShortCircuit(articles)
                 THEN /\ p_result' = [articles_collected |-> 0,
                                      articles_scored |-> 0,
                                      articles_filtered |-> 0,
                                      articles_saved |-> 0,
                                      newsletter_date |-> newsletter_date]
                      /\ interests' = interests
                      /\ p_pc' = "done"
                 ELSE /\ p_result' = p_result
                      /\ interests' = StageLoadInterests(load)
                      /\ p_pc' = "score"
    /\ UNCHANGED <<storeVars, p_threshold, p_max_articles, p_runs, newsletter_date,
                   scored, filtered, summarized>>
    /\ UNCHANGED exceptPipe

\* Lines 70-74: stage 3 and stage 4.
Score ==
    /\ p_pc = "score"
    /\ \E raised \in BOOLEAN, results \in [1..Len(collected) -> ScoreOutputs] :
          LET score_results == ScoreResults(raised, results, Len(collected))
              merged == MergeScores(collected, score_results)
              kept == StageFilter(merged, p_threshold, p_max_articles)
          IN  /\ scored' = merged
              /\ filtered' = kept
              /\ p_log' = [p_log EXCEPT !.score_calls = @ + 1, !.score_raised = raised]
              /\ p_pc' = IF Propagates("score", raised) THEN "raised"
                         ELSE IF kept = <<>> THEN "persist" ELSE "summarize"
    /\ UNCHANGED <<storeVars, p_threshold, p_max_articles, p_runs, newsletter_date,
                   collected, interests, summarized, p_result>>
    /\ UNCHANGED exceptPipe

\* Line 77, _stage_summarize: one iteration of its loop.
Summarize ==
    /\ p_pc = "summarize"
    /\ Len(summarized) < Len(filtered)
    /\ \E summarizer_ok \in BOOLEAN :
          LET k == Len(summarized) + 1
              article == filtered[k]
          IN  /\ summarized' = Append(summarized,
                                  [source_url |-> article.source_url,
                                   relevance_score |-> article.relevance_score,
                                   summary |-> ArticleSummary(article.source_url, summarizer_ok)])
              /\ p_log' = [p_log EXCEPT !.summary_calls = @ + 1,
                                        !.summary_failed =
                                            IF summarizer_ok THEN @ ELSE @ \cup {k}]
              /\ p_pc' = IF Propagates("summarize", ~summarizer_ok) THEN "raised"
                         ELSE IF k = Len(filtered) THEN "persist" ELSE "summarize"
    /\ UNCHANGED <<storeVars, p_threshold, p_max_articles, p_runs, newsletter_date,
                   collected, interests, scored, filtered, p_result>>
    /\ UNCHANGED exceptPipe

\* Lines 79-96: stage 5 and the returned statistics.
Persist ==
    /\ p_pc = "persist"
    /\ \E failing \in SUBSET (1..Len(summarized)) :
          LET done == PersistRows(db_articles, summarized, newsletter_date, failing, 1)
          IN  /\ db_articles' = done.db
              /\ p_result' = IF Propagates("persist", done.saved < Len(summarized))
                             THEN p_result
                             ELSE [articles_collected |-> Len(collected),
                                   articles_scored |-> Len(scored),
                                   articles_filtered |-> Len(filtered),
                                   articles_saved |-> done.saved,
                                   newsletter_date |-> newsletter_date]
              /\ p_log' = [p_log EXCEPT !.insert_calls = @ + Len(summarized),
                                        !.insert_failed = failing]
              /\ p_pc' = IF Propagates("persist", done.saved < Len(summarized))
                         THEN "raised" ELSE "done"
    /\ UNCHANGED <<today, user_interests, p_threshold, p_max_articles, p_runs,
                   newsletter_date, collected, interests, scored, filtered, summarized>>
    /\ UNCHANGED exceptPipe

Next == Tick \/ StartRun \/ Collect \/ Score \/ Summarize \/ Persist

Spec == PipeInit /\ [][Next]_vars

----------------------------------------------------------------------------
(* Properties of the pipeline                                              *)

RowsOn(date) == {i \in 1..Len(db_articles) : db_articles[i].newsletter_date = date}

RowsWith(url) == {i \in 1..Len(db_articles) : db_articles[i].source_url = url}

RunRows == {i \in 1..Len(db_articles) : i > p_log.rows_before}

ZeroStats ==
    [articles_collected |-> 0, articles_scored |-> 0, articles_filtered |-> 0,
     articles_saved |-> 0, newsletter_date |-> newsletter_date]

\* C6: a run keeps at most (cap - rows already persisted for its date)
\* articles, and the rows persisted for one newsletter date never exceed
\* the cap.
C6_RemainingSlots ==
    /\ p_pc \in {"summarize", "persist"} =>
          Len(filtered) <= p_max_articles - Cardinality(RowsOn(newsletter_date))
    /\ \A d \in Days : Cardinality(RowsOn(d)) <= p_max_articles

\* C7: a run whose scorer call raised returns collected = the number of
\* collected articles and zero scored, filtered and saved, and persists no
\* row.
C7_ScorerAbort ==
    (p_pc = "done" /\ p_log.score_raised) =>
        /\ p_result = [ZeroStats EXCEPT !.articles_collected = Len(collected)]
        /\ RunRows = {}

\* C8: a run in which the summarizer raised for an article still persists
\* that article, with summary null, and persists every other filtered
\* article with its own generated summary.
C8_NullSummary ==
    p_pc = "done" =>
        /\ \A i \in RunRows :
              \E k \in 1..Len(filtered) :
                  /\ filtered[k].source_url = db_articles[i].source_url
                  /\ db_articles[i].summary =
                        IF k \in p_log.summary_failed THEN PyNone
                        ELSE PyText(<<"summary of", filtered[k].source_url>>)
        /\ \A k \in 1..Len(filtered) :
              (p_log.insert_failed = {} /\ p_log.rows_before = 0) =>
                  RowsWith(filtered[k].source_url) # {}

C10_EmptyCollection ==
    /\ (p_pc = "done" /\ collected = <<>>) =>
          /\ p_result = ZeroStats
          /\ p_log.score_calls = 0
          /\ p_log.summary_calls = 0
          /\ p_log.insert_calls = 0
          /\ scored = <<>> /\ filtered = <<>> /\ summarized = <<>>
          /\ RunRows = {}
    /\ p_pc \in {"score", "summarize", "persist"} => collected # <<>>

\* A second run, on the next day, finds only known URLs and stops after
\* collection.
C10_Witness ==
    /\ p_pc = "done"
    /\ collected = <<>>
    /\ p_runs = 2
    /\ newsletter_date = 2
    /\ Len(db_articles) > 0
    /\ p_result = ZeroStats

\* C11: when scoring starts, time decay has been applied for the run's day,
\* so no interest record is left in the store that was last updated before
\* today minus the decay interval (decay deletes or re-stamps each of them).
C11_DecayBeforeScoring ==
    p_pc = "score" =>
        \A i \in 1..Len(user_interests) :
            user_interests[i].updated_at >= today - DECAY_INTERVAL_DAYS

\* C23: no failure inside a stage leaves run_daily_pipeline as an
\* exception; a run that has ended has returned a stats record of four
\* integers and the run's date.
C23_NeverPropagates ==
    /\ p_pc # "raised"
    /\ p_pc = "done" =>
          /\ p_result.articles_collected \in Nat
          /\ p_result.articles_scored \in Nat
          /\ p_result.articles_filtered \in Nat
          /\ p_result.articles_saved \in Nat
          /\ p_result.newsletter_date = newsletter_date
          /\ newsletter_date \in Days

\* A run has returned its record although the interest load failed, the
\* scorer raised, a summary failed and an insert failed.
C23_Witness ==
    /\ p_pc = "done"
    /\ p_log.load_failed
    /\ p_log.score_raised
    /\ p_log.summary_failed # {}
    /\ p_log.insert_failed # {}
    /\ p_result.articles_collected = 2
    /\ p_result.articles_saved = 1

\* The positions of the filtered set whose insert the store accepted: no
\* transient failure, no row of the URL before the run, no earlier article
\* of the set with the URL.
Accepted ==
    {k \in 1..Len(summarized) :
        /\ k \notin p_log.insert_failed
        /\ \A i \in 1..p_log.rows_before :
              db_articles[i].source_url # summarized[k].source_url
        /\ \A j \in 1..(k - 1) :
              j \in p_log.insert_failed
                  \/ summarized[j].source_url # summarized[k].source_url}

\* C28: every returned stats record has saved <= filtered <= scored =
\* collected and filtered <= the configured maximum; saved is the number of
\* rows whose insert succeeded, an insert after a failed one included.
C28_StatsOrdered ==
    p_pc = "done" =>
        /\ p_result.articles_saved <= p_result.articles_filtered
        /\ p_result.articles_filtered <= p_result.articles_scored
        /\ p_result.articles_scored = p_result.articles_collected
        /\ p_result.articles_filtered <= p_max_articles
        /\ p_result.articles_saved = Cardinality(RunRows)
        /\ p_result.articles_saved = Cardinality(Accepted)
        /\ \A k \in Accepted :
              \E i \in RunRows : db_articles[i].source_url = summarized[k].source_url

\* A run of two collected articles, both filtered, whose first insert
\* failed and whose second went through.
C28_Witness ==
    /\ p_pc = "done"
    /\ p_result.articles_collected = 2
    /\ p_result.articles_scored = 2
    /\ p_result.articles_filtered = 2
    /\ p_max_articles = 2
    /\ p_log.insert_failed = {1}
    /\ p_result.articles_saved = 1

\* C30: the candidates returned by collect_articles hold no URL that has a
\* row in the article store and no URL twice, so a run never hands the same
\* URL to the store twice.
C30_CandidatesDistinct ==
    /\ p_pc = "score" =>
          /\ \A k \in 1..Len(collected) : RowsWith(collected[k].source_url) = {}
          /\ \A j, k \in 1..Len(collected) :
                collected[j].source_url = collected[k].source_url => j = k
    /\ p_pc = "persist" =>
          \A j, k \in 1..Len(summarized) :
                summarized[j].source_url = summarized[k].source_url => j = k

----------------------------------------------------------------------------
(* backend/services/interests.py: the interest engine                      *)

Keywords == {"ai", "rust"}

\* The articles of table "articles" a user can like; article 2 carries one
\* keyword twice, article 3 carries none.
Articles == {1, 2, 3}

ArticleKeywords(article_id) ==
    CASE article_id = 1 -> <<"ai", "rust">>
      [] article_id = 2 -> <<"ai", "ai">>
      [] OTHER -> <<>>

\* A keyword without a row, and a row of "user_interests".
Absent == [present |-> FALSE, weight |-> 0, updated_at |-> 0]
Row(weight, updated_at) == [present |-> TRUE, weight |-> weight, updated_at |-> updated_at]

\* _fetch_user_interests_by_keywords: the rows of the keywords asked for,
\* read once before the loop.
FetchUserInterestsByKeywords(store, keywords) ==
    [k \in {keywords[i] : i \in 1..Len(keywords)} |-> store[k]]

LikedRowFromStore(store, existing, keyword, now) ==
    Row(store[keyword].weight + LIKE_WEIGHT_INCREMENT, now)

\* update_interests_on_like, lines 54-65: the row upserted for one keyword
\* (existing.get(keyword, 0.0) + increment).
LikedRow(store, existing, keyword, now) ==
    Row((IF existing[keyword].present THEN existing[keyword].weight ELSE 0)
            + LIKE_WEIGHT_INCREMENT, now)

\* update_interests_on_like, lines 53-65: the loop from keyword i on.
RECURSIVE LikeLoop(_, _, _, _, _)
LikeLoop(store, existing, keywords, now, i) ==
    IF i > Len(keywords) THEN store
    ELSE LikeLoop([store EXCEPT ![keywords[i]] = LikedRow(store, existing, keywords[i], now)],
                  existing, keywords, now, i + 1)

\* update_interests_on_like
UpdateInterestsOnLike(store, article_id, now) ==
    LET keywords == ArticleKeywords(article_id)
    IN  IF keywords = <<>> THEN store
        ELSE LikeLoop(store, FetchUserInterestsByKeywords(store, keywords), keywords, now, 1)

UnlikedRowKeepZero(current, now) ==
    IF current.weight - LIKE_WEIGHT_INCREMENT < 0 THEN Absent
    ELSE Row(current.weight - LIKE_WEIGHT_INCREMENT, now)

\* remove_interests_on_unlike, lines 108-123: what becomes of a row found.
UnlikedRow(current, now) ==
    LET new_weight == current.weight - LIKE_WEIGHT_INCREMENT
    IN  IF new_weight <= 0 THEN Absent ELSE Row(new_weight, now)

\* remove_interests_on_unlike, lines 103-123: the loop from keyword i on.
RECURSIVE UnlikeLoop(_, _, _, _, _)
UnlikeLoop(store, existing, keywords, now, i) ==
    IF i > Len(keywords) THEN store
    ELSE LET keyword == keywords[i]
         IN  UnlikeLoop(IF ~existing[keyword].present THEN store
                        ELSE [store EXCEPT ![keyword] = UnlikedRow(existing[keyword], now)],
                        existing, keywords, now, i + 1)

\* remove_interests_on_unlike
RemoveInterestsOnUnlike(store, article_id, now) ==
    LET keywords == ArticleKeywords(article_id)
    IN  IF keywords = <<>> THEN store
        ELSE UnlikeLoop(store, FetchUserInterestsByKeywords(store, keywords), keywords, now, 1)

\* apply_time_decay, lines 155-165: the rows with updated_at < cutoff.
Stale(store, now) ==
    {k \in DOMAIN store : store[k].present /\ store[k].updated_at < now - DECAY_INTERVAL_DAYS}

DecayedRowUnstamped(interest, now) ==
    LET new_weight == (interest.weight * DECAY_FACTOR_TENTHS) \div 10
    IN  IF new_weight < MIN_WEIGHT THEN Absent ELSE Row(new_weight, interest.updated_at)

DecayedRowInverse(interest, now) ==
    LET new_weight == (interest.weight * 10) \div DECAY_FACTOR_TENTHS
    IN  IF new_weight < MIN_WEIGHT THEN Absent ELSE Row(new_weight, now)

\* apply_time_decay, lines 173-186: what becomes of one stale row.
DecayedRow(interest, now) ==
    LET new_weight == (interest.weight * DECAY_FACTOR_TENTHS) \div 10
    IN  IF new_weight < MIN_WEIGHT THEN Absent ELSE Row(new_weight, now)

\* apply_time_decay: the store it leaves and the count it returns.
ApplyTimeDecay(store, now) ==
    LET stale == Stale(store, now)
    IN  [store |-> [k \in DOMAIN store |->
                       IF k \in stale THEN DecayedRow(store[k], now) ELSE store[k]],
         count |-> Cardinality(stale)]

\* The weights and time stamps of the rows the engine starts on: 1.0 after
\* one like, 1.0096 after a like, a decay, a second like and six decays;
\* stamped eight and five days ago.
InitWeights == {10000, 10096}
InitStamps == {-8, -5}

\* The days that pass between two operations.
TickDays == {4}

InterestInit ==
    /\ i_now = 0
    /\ i_store \in [Keywords -> {Absent} \cup
                        {Row(w, u) : w \in InitWeights, u \in InitStamps}]
    /\ i_liked \in SUBSET {1, 2}
    /\ i_hist = <<>>
    /\ RetryIdle /\ ScorerIdle /\ FilterIdle /\ PipeIdle /\ SynthIdle
    /\ TriggerIdle /\ LikesIdle /\ LoopIdle /\ RaceIdle /\ ParserIdle

\* The history keeps the last two operations; of the older one it keeps the
\* store it started on only when it is a like that the newer one undoes.
Remember(hist, entry) ==
    IF hist = <<>> THEN <<entry>>
    ELSE LET last == hist[Len(hist)]
             undone == /\ last.op = "like"
                       /\ entry.op = "unlike"
                       /\ last.article = entry.article
         IN  <<IF undone THEN last ELSE [last EXCEPT !.before = <<>>], entry>>

\* backend/routers/articles.py: toggle_like
ToggleLike ==
    /\ \E article_id \in Articles :
          IF article_id \in i_liked
          THEN /\ i_liked' = i_liked \ {article_id}
               /\ i_store' = RemoveInterestsOnUnlike(i_store, article_id, i_now)
               /\ i_hist' = Remember(i_hist, [op |-> "unlike", article |-> article_id,
                                              at |-> i_now, before |-> i_store,
                                              returned |-> 0])
          ELSE /\ i_liked' = i_liked \cup {article_id}
               /\ i_store' = UpdateInterestsOnLike(i_store, article_id, i_now)
               /\ i_hist' = Remember(i_hist, [op |-> "like", article |-> article_id,
                                              at |-> i_now, before |-> i_store,
                                              returned |-> 0])
    /\ i_now' = i_now
    /\ UNCHANGED exceptInterest

\* apply_time_decay is called for the user.
TimeDecay ==
    /\ LET decayed == ApplyTimeDecay(i_store, i_now)
       IN  /\ i_store' = decayed.store
           /\ i_hist' = Remember(i_hist, [op |-> "decay", article |-> 0,
                                          at |-> i_now, before |-> i_store,
                                          returned |-> decayed.count])
    /\ UNCHANGED <<i_now, i_liked>>
    /\ UNCHANGED exceptInterest

\* Time passes.
ClockTick ==
    /\ \E days \in TickDays :
          /\ i_now + days <= MaxClock
          /\ i_now' = i_now + days
    /\ UNCHANGED <<i_store, i_liked, i_hist>>
    /\ UNCHANGED exceptInterest

InterestNext == ToggleLike \/ TimeDecay \/ ClockTick

SpecInterests == InterestInit /\ [][InterestNext]_vars

----------------------------------------------------------------------------
(* Properties of the interest engine                                       *)

\* The last operation and the one before it.
LastOp == i_hist[Len(i_hist)]
LastIs(op) == i_hist # <<>> /\ LastOp.op = op

OnArticle(article_id) ==
    {ArticleKeywords(article_id)[i] : i \in 1..Len(ArticleKeywords(article_id))}

\* C12: after an unlike, a keyword of the article without a record still has
\* none; one with a record has weight existing - decrement, or no record
\* when that is <= 0; the keywords not on the article are unchanged.
C12_UnlikeDecrements ==
    LastIs("unlike") =>
        \A k \in Keywords :
            LET was == LastOp.before[k]
            IN  IF k \notin OnArticle(LastOp.article) \/ ~was.present
                THEN i_store[k] = was
                ELSE IF was.weight - LIKE_WEIGHT_INCREMENT <= 0
                THEN ~i_store[k].present
                ELSE /\ i_store[k].present
                     /\ i_store[k].weight = was.weight - LIKE_WEIGHT_INCREMENT

\* Article 1 was unliked while "ai" had a weight above the decrement and
\* "rust" had no record.
C12_Witness ==
    /\ LastIs("unlike")
    /\ LastOp.article = 1
    /\ LastOp.before["ai"].present
    /\ LastOp.before["ai"].weight = 2 * LIKE_WEIGHT_INCREMENT
    /\ ~LastOp.before["rust"].present
    /\ i_store["ai"].weight = LIKE_WEIGHT_INCREMENT
    /\ ~i_store["rust"].present

\* The last two operations were a like of an article and then its unlike.
LikeUndone ==
    /\ Len(i_hist) = 2
    /\ i_hist[1].op = "like"
    /\ i_hist[2].op = "unlike"
    /\ i_hist[1].article = i_hist[2].article

\* C13: a like followed by an unlike of the same article leaves every
\* keyword with its pre-like weight, or without a record if it had none
\* before the like; and no stored weight is ever negative.
C13_LikeUnlikeRestores ==
    /\ LikeUndone =>
          \A k \in Keywords :
              LET was == i_hist[1].before[k]
              IN  IF was.present
                  THEN i_store[k].present /\ i_store[k].weight = was.weight
                  ELSE ~i_store[k].present
    /\ i_store # <<>> =>
          \A k \in Keywords : i_store[k].present => i_store[k].weight >= 0

\* Article 1 was liked and unliked on a store where "ai" had weight 1.0096
\* and "rust" had no record.
C13_Witness ==
    /\ LikeUndone
    /\ i_hist[1].article = 1
    /\ i_hist[1].before["ai"].present
    /\ i_hist[1].before["ai"].weight = 10096
    /\ ~i_hist[1].before["rust"].present
    /\ i_hist[2].before["ai"].weight = 10096 + LIKE_WEIGHT_INCREMENT
    /\ i_hist[2].before["rust"].weight = LIKE_WEIGHT_INCREMENT
    /\ i_store["ai"].weight = 10096
    /\ ~i_store["rust"].present

\* C14: every interest record in the store has weight strictly above 0.01.
C14_WeightAboveEpsilon ==
    i_store # <<>> =>
        \A k \in Keywords : i_store[k].present => i_store[k].weight > MIN_WEIGHT

\* The records the last call of apply_time_decay found stale.
WasStale == Stale(LastOp.before, LastOp.at)

\* The last two operations were calls of apply_time_decay, the second made
\* before a full interval had passed since the first.
DecayedTwiceWithinInterval ==
    /\ Len(i_hist) = 2
    /\ i_hist[1].op = "decay"
    /\ i_hist[2].op = "decay"
    /\ i_hist[2].at - i_hist[1].at < DECAY_INTERVAL_DAYS

\* apply_time_decay touches only the records last updated before now minus
\* the interval, and stamps every record it keeps with the current time.
DecayTouchesOnlyStale ==
    LastIs("decay") =>
        /\ \A k \in Keywords \ WasStale : i_store[k] = LastOp.before[k]
        /\ \A k \in WasStale : i_store[k].present => i_store[k].updated_at = LastOp.at
        /\ LastOp.returned = Cardinality(WasStale)

\* C15 as stated: apply_time_decay touches only stale records and stamps
\* those it keeps, and a second call made before a full interval has elapsed
\* changes no record and returns 0.
C15_SecondCallChangesNothing ==
    /\ DecayTouchesOnlyStale
    /\ DecayedTwiceWithinInterval =>
          /\ i_store = LastOp.before
          /\ LastOp.returned = 0

\* C15, amended: apply_time_decay touches only stale records and stamps
\* those it keeps; a second call made before a full interval has elapsed
\* changes no record the first call stamped, and it changes no record at all
\* and returns 0 when no other record has become stale since the first call.
C15_SecondCallSparesRefreshed ==
    /\ DecayTouchesOnlyStale
    /\ DecayedTwiceWithinInterval =>
          /\ \A k \in Keywords :
                (LastOp.before[k].present /\ LastOp.before[k].updated_at = i_hist[1].at)
                    => i_store[k] = LastOp.before[k]
          /\ WasStale = {} => (i_store = LastOp.before /\ LastOp.returned = 0)

\* Four days after a call that decayed and stamped "ai", a second call
\* leaves "ai" alone and decays "rust", which has become stale meanwhile.
C15_Witness ==
    /\ DecayedTwiceWithinInterval
    /\ i_hist[2].at > i_hist[1].at
    /\ LastOp.before["ai"].present
    /\ LastOp.before["ai"].updated_at = i_hist[1].at
    /\ LastOp.before["ai"].weight = 9000
    /\ i_store["ai"] = LastOp.before["ai"]
    /\ WasStale = {"rust"}
    /\ LastOp.returned = 1

\* C16: a call of apply_time_decay leaves each record's weight unchanged,
\* lowers it, or deletes the record; it never raises a weight and never
\* creates a record.
C16_DecayNeverIncreases ==
    LastIs("decay") =>
        \A k \in Keywords :
            LET was == LastOp.before[k]
            IN  IF was.present
                THEN ~i_store[k].present \/ i_store[k].weight <= was.weight
                ELSE ~i_store[k].present

\* "ai" was decayed by two calls in a row, from 1.0 to 0.9 and on to 0.81.
C16_Witness ==
    /\ Len(i_hist) = 2
    /\ i_hist[1].op = "decay"
    /\ LastIs("decay")
    /\ LastOp.before["ai"].weight = 9000
    /\ i_store["ai"].present
    /\ i_store["ai"].weight = 8100
    /\ LastOp.returned >= 1

----------------------------------------------------------------------------
(* backend/services/digest.py: generate_daily_digest                       *)

\* _NO_ARTICLES_DIGEST
NO_ARTICLES_DIGEST ==
    [headline |-> "", sections |-> <<>>, key_takeaways |-> <<>>, connections |-> ""]

\* The values the LLM can write into "article_ids": a JSON integer, a float
\* with an integral value, a float v + 0.5, true/false (v = 1/0), a string,
\* and NaN (which json.loads accepts).
Idx(t, v) == [t |-> t, v |-> v]

IdxEntries(n) ==
    {Idx("int", k) : k \in 0..(n + 1)}
        \cup {Idx("float", 2), Idx("frac", 1), Idx("bool", 1), Idx("str", 1), Idx("nan", 0)}

\* isinstance(article_id, int | float)
IsIntOrFloat(e) == e.t \in {"int", "float", "frac", "bool", "nan"}

\* The lists of at most two entries an "article_ids" field can hold.
IdxLists(n) == UNION { [1..len -> IdxEntries(n)] : len \in 0..2 }

\* A section the LLM wrote: not an object; or an object whose "article_ids"
\* is a list, is missing, or is a number.
SectionValues(n) ==
    {[t |-> "str", ids |-> JAbsent], [t |-> "dict", ids |-> JAbsent], [t |-> "dict", ids |-> JNum(5)]}
        \cup {[t |-> "dict", ids |-> JList(l)] : l \in IdxLists(n)}

\* What json.loads makes of the reply: nothing (invalid JSON, the "" of a
\* missing text included), an array, or an object.
DigestReplies(n) ==
    {[kind |-> "invalid", headline |-> JAbsent, sections |-> JAbsent, key_takeaways |-> JAbsent],
     [kind |-> "array", headline |-> JAbsent, sections |-> JAbsent, key_takeaways |-> JAbsent]}
        \cup {[kind |-> "object", headline |-> h, sections |-> sec, key_takeaways |-> kt] :
                h \in {JStr("H"), JStr(""), JNum(7)},
                sec \in {JAbsent} \cup {JList(l) : l \in UNION {[1..len -> SectionValues(n)] : len \in 0..2}},
                kt \in {JAbsent, JList(<<JStr("t")>>)}}

\* int(article_id); int(nan) raises ValueError.
IntOf(e) == e.v

\* Lines 129-139: the article_ids of a parsed section.
ParsedIds(ids) ==
    IF ids.t = "list"
    THEN LET numeric == SelectSeq(ids.v, IsIntOrFloat)
         IN  [j \in 1..Len(numeric) |-> IntOf(numeric[j])]
    ELSE <<>>

\* Lines 126-141 raise for a section: a truthy "article_ids" that cannot be
\* iterated (TypeError), or a NaN among the entries (ValueError).
SectionRaises(section) ==
    /\ section.t = "dict"
    /\ \/ section.ids.t = "num"
       \/ /\ section.ids.t = "list"
          /\ \E j \in 1..Len(section.ids.v) : section.ids.v[j].t = "nan"

\* _parse_digest_response: the content, or an exception that escapes (an
\* array has no .get: AttributeError).
ParseDigestResponse(reply) ==
    IF reply.kind = "invalid" THEN [raised |-> FALSE, content |-> NO_ARTICLES_DIGEST]
    ELSE IF reply.kind = "array" THEN [raised |-> TRUE, content |-> NO_ARTICLES_DIGEST]
    ELSE LET raw_sections == IF reply.sections.t = "list" THEN reply.sections.v ELSE <<>>
             dicts == SelectSeq(raw_sections, LAMBDA sec : sec.t = "dict")
         IN  IF \E j \in 1..Len(dicts) : SectionRaises(dicts[j])
             THEN [raised |-> TRUE, content |-> NO_ARTICLES_DIGEST]
             ELSE [raised |-> FALSE,
                   content |->
                     [headline |-> IF reply.headline.t = "str" THEN reply.headline.v ELSE "",
                      sections |-> [j \in 1..Len(dicts) |-> [article_ids |-> ParsedIds(dicts[j].ids)]],
                      key_takeaways |-> IF reply.key_takeaways.t = "list"
                                        THEN [j \in 1..Len(reply.key_takeaways.v) |->
                                                 PyStr(reply.key_takeaways.v[j])]
                                        ELSE <<>>,
                      connections |-> ""]]

IndexToIdZeroBased(articles) == [i \in 0..(Len(articles) - 1) |-> articles[i + 1]]

\* generate_daily_digest, lines 186-188: index_to_id
IndexToId(articles) == [i \in 1..Len(articles) |-> articles[i]]

\* generate_daily_digest, lines 208-211
RemapSections(sections, index_to_id) ==
    [j \in 1..Len(sections) |->
        LET kept == SelectSeq(sections[j].article_ids, LAMBDA idx : idx \in DOMAIN index_to_id)
        IN  [article_ids |-> [x \in 1..Len(kept) |-> index_to_id[kept[x]]]]]

\* call_gemini_with_retry, as its caller sees it: after `fails` failing
\* attempts it returns the text, or raises when every attempt failed.
CallGemini(fails) ==
    IF fails >= RETRY_MAX_RETRIES
    THEN [raised |-> TRUE, calls |-> RETRY_MAX_RETRIES]
    ELSE [raised |-> FALSE, calls |-> fails + 1]

\* The reply of an LLM call that never returned.
NoReply ==
    [kind |-> "none", headline |-> JAbsent, sections |-> JAbsent, key_takeaways |-> JAbsent]

NoRewindReply ==
    [kind |-> "none", hot_topics |-> JAbsent, trend_changes |-> JAbsent, suggestions |-> JAbsent]

DigestFromLlmUncaught(articles, call, reply) ==
    LET parsed == ParseDigestResponse(reply)
    IN  IF call.raised \/ parsed.raised
        THEN [raised |-> TRUE, content |-> NO_ARTICLES_DIGEST, ids |-> articles]
        ELSE [raised |-> FALSE,
              content |-> [parsed.content EXCEPT
                              !.sections = RemapSections(@, IndexToId(articles))],
              ids |-> articles]

\* generate_daily_digest, lines 194-213, given the outcome of the retry
\* helper and what the LLM wrote: `except Exception` lets nothing escape.
DigestFromLlm(articles, call, reply) ==
    LET parsed == ParseDigestResponse(reply)
    IN  IF call.raised \/ parsed.raised
        THEN [raised |-> FALSE, content |-> NO_ARTICLES_DIGEST, ids |-> articles]
        ELSE [raised |-> FALSE,
              content |-> [parsed.content EXCEPT
                              !.sections = RemapSections(@, IndexToId(articles))],
              ids |-> articles]

AlwaysSomeArticles(articles) == FALSE

\* generate_daily_digest, line 178: `if not articles`
NoArticles(articles) == articles = <<>>

\* The ids of the articles of the date, as the query returns them.
ArticleIds(n) == [k \in 1..n |-> 20 + k]

\* A digest row written earlier for the date.
OldDigest ==
    [digest_date |-> 1, content |-> [NO_ARTICLES_DIGEST EXCEPT !.headline = "Old"],
     article_ids |-> <<>>, article_count |-> 0]

\* The entry points exercised: generate_daily_digest called directly, the
\* generate endpoint, generate_rewind_report, or both generators on a date
\* without articles.
SynthModes == {"digest", "endpoint", "rewind", "both"}

SynthInit ==
    /\ y_mode \in SynthModes
    /\ g_pc = IF y_mode \in {"digest", "both"} THEN "query" ELSE "idle"
    /\ g_articles \in IF y_mode \in {"rewind", "both"} THEN {<<>>}
                      ELSE {ArticleIds(n) : n \in 0..MaxDigestArticles}
    /\ g_reply = NoReply
    /\ g_calls = 0
    /\ g_result = <<>>
    /\ e_pc = IF y_mode = "endpoint" THEN "count" ELSE "idle"
    /\ e_status = 0
    /\ e_digests \in IF y_mode = "endpoint" THEN {<<>>, <<OldDigest>>} ELSE {<<>>}
    /\ w_pc = IF y_mode \in {"rewind", "both"} THEN "query" ELSE "idle"
    /\ w_liked \in IF y_mode \in {"rewind", "both"} THEN 0..1 ELSE {0}
    /\ w_reply = NoRewindReply
    /\ w_calls = 0
    /\ w_result = <<>>
    /\ RetryIdle /\ ScorerIdle /\ FilterIdle /\ PipeIdle /\ InterestIdle
    /\ TriggerIdle /\ LikesIdle /\ LoopIdle /\ RaceIdle /\ ParserIdle

\* generate_daily_digest, lines 166-192: the query, the early return, the
\* prompt and the client (whose construction can raise).
DigestQuery ==
    /\ g_pc = "query"
    /\ IF NoArticles(g_articles)
       THEN /\ g_result' = [raised |-> FALSE, content |-> NO_ARTICLES_DIGEST, ids |-> <<>>]
            /\ g_pc' = "returned"
       ELSE /\ g_result' = g_result
            /\ \E client_created \in BOOLEAN :
                  g_pc' = IF client_created THEN "llm" ELSE "raised"
    /\ UNCHANGED <<y_mode, g_articles, g_reply, g_calls, endpointVars, rewindVars>>
    /\ UNCHANGED exceptSynth

\* generate_daily_digest, lines 194-213
DigestLlm ==
    /\ g_pc = "llm"
    /\ \E fails \in 0..RETRY_MAX_RETRIES, reply \in DigestReplies(Len(g_articles)) :
          LET call == CallGemini(fails)
              made == DigestFromLlm(g_articles, call, reply)
          IN  /\ g_calls' = g_calls + call.calls
              /\ g_reply' = IF call.raised THEN NoReply ELSE reply
              /\ g_result' = made
              /\ g_pc' = IF made.raised THEN "raised" ELSE "returned"
    /\ UNCHANGED <<y_mode, g_articles, endpointVars, rewindVars>>
    /\ UNCHANGED exceptSynth

----------------------------------------------------------------------------
(* backend/routers/digest.py: generate_digest, generate_digest_for_date    *)

\* persist_digest: upsert on digest_date
PersistDigest(digests, digest_date, content, article_ids) ==
    SelectSeq(digests, LAMBDA row : row.digest_date # digest_date)
        \o <<[digest_date |-> digest_date, content |-> content,
              article_ids |-> article_ids, article_count |-> Len(article_ids)]>>

HeadlineNeverMissing(content) == FALSE

\* Lines 103 and 139: `if not content["headline"]`
HeadlineMissing(content) == content.headline = ""

\* Lines 86-99 (122-135): the count of the date's articles; 404 when zero,
\* the generator is called otherwise.
EndpointCount ==
    /\ e_pc = "count"
    /\ IF Len(g_articles) = 0
       THEN /\ e_status' = 404
            /\ e_pc' = "answered"
            /\ g_pc' = g_pc
       ELSE /\ e_status' = e_status
            /\ e_pc' = "generating"
            /\ g_pc' = "query"
    /\ UNCHANGED <<y_mode, g_articles, g_reply, g_calls, g_result, e_digests, rewindVars>>
    /\ UNCHANGED exceptSynth

\* Lines 101-113 (137-149), once the generator is back: 502 on an empty
\* headline, the upsert and 201 otherwise; an exception of the generator
\* becomes a 500.
EndpointAnswer ==
    /\ e_pc = "generating"
    /\ g_pc \in {"returned", "raised"}
    /\ IF g_pc = "raised"
       THEN e_status' = 500 /\ e_digests' = e_digests
       ELSE IF HeadlineMissing(g_result.content)
       THEN e_status' = 502 /\ e_digests' = e_digests
       ELSE /\ e_status' = 201
            /\ e_digests' = PersistDigest(e_digests, 1, g_result.content, g_result.ids)
    /\ e_pc' = "answered"
    /\ UNCHANGED <<y_mode, digestVars, rewindVars>>
    /\ UNCHANGED exceptSynth

----------------------------------------------------------------------------
(* backend/services/rewind.py: generate_rewind_report                      *)

\* _NO_ACTIVITY_REPORT
NO_ACTIVITY_REPORT ==
    [hot_topics |-> <<>>, trend_changes |-> [rising |-> <<>>, declining |-> <<>>],
     suggestions |-> <<>>]

Trend(rising, declining) == [t |-> "dict", rising |-> rising, declining |-> declining]

RewindReplies ==
    {[NoRewindReply EXCEPT !.kind = "invalid"], [NoRewindReply EXCEPT !.kind = "array"]}
        \cup {[kind |-> "object", hot_topics |-> ht, trend_changes |-> tc, suggestions |-> sg] :
                ht \in {JAbsent, JStr("llm"), JList(<<JStr("llm"), JNum(7)>>)},
                tc \in {JAbsent, JStr("up"),
                        Trend(JList(<<JStr("agents")>>), JAbsent),
                        Trend(JNum(1), JList(<<JStr("web3")>>))},
                sg \in {JAbsent, JList(<<JStr("rust")>>)}}

\* [str(t) for t in value] of a list, [] of anything else
StrListOrEmpty(value) ==
    IF value.t = "list" THEN [j \in 1..Len(value.v) |-> PyStr(value.v[j])] ELSE <<>>

\* _parse_rewind_response
ParseRewindResponse(reply) ==
    IF reply.kind = "invalid" THEN [raised |-> FALSE, report |-> NO_ACTIVITY_REPORT]
    ELSE IF reply.kind = "array" THEN [raised |-> TRUE, report |-> NO_ACTIVITY_REPORT]
    ELSE [raised |-> FALSE,
          report |->
            [hot_topics |-> StrListOrEmpty(reply.hot_topics),
             trend_changes |->
                IF reply.trend_changes.t = "dict"
                THEN [rising |-> StrListOrEmpty(reply.trend_changes.rising),
                      declining |-> StrListOrEmpty(reply.trend_changes.declining)]
                ELSE [rising |-> <<>>, declining |-> <<>>],
             suggestions |-> StrListOrEmpty(reply.suggestions)]]

\* generate_rewind_report, lines 112-123
RewindFromLlm(call, reply) ==
    LET parsed == ParseRewindResponse(reply)
    IN  IF call.raised \/ parsed.raised
        THEN [raised |-> FALSE, report |-> NO_ACTIVITY_REPORT]
        ELSE [raised |-> FALSE, report |-> parsed.report]

\* generate_rewind_report, lines 90-110: the liked articles of the last 7
\* days, the early return, the previous report, the prompt and the client.
RewindQuery ==
    /\ w_pc = "query"
    /\ IF w_liked = 0
       THEN /\ w_result' = [raised |-> FALSE, report |-> NO_ACTIVITY_REPORT]
            /\ w_pc' = "returned"
       ELSE /\ w_result' = w_result
            /\ \E client_created \in BOOLEAN :
                  w_pc' = IF client_created THEN "llm" ELSE "raised"
    /\ UNCHANGED <<y_mode, digestVars, endpointVars, w_liked, w_reply, w_calls>>
    /\ UNCHANGED exceptSynth

\* generate_rewind_report, lines 112-123
RewindLlm ==
    /\ w_pc = "llm"
    /\ \E fails \in 0..RETRY_MAX_RETRIES, reply \in RewindReplies :
          LET call == CallGemini(fails)
              made == RewindFromLlm(call, reply)
          IN  /\ w_calls' = w_calls + call.calls
              /\ w_reply' = IF call.raised THEN NoRewindReply ELSE reply
              /\ w_result' = made
              /\ w_pc' = IF made.raised THEN "raised" ELSE "returned"
    /\ UNCHANGED <<y_mode, digestVars, endpointVars, w_liked>>
    /\ UNCHANGED exceptSynth

SynthNext ==
    DigestQuery \/ DigestLlm \/ EndpointCount \/ EndpointAnswer \/ RewindQuery \/ RewindLlm

SpecSynth == SynthInit /\ [][SynthNext]_vars

----------------------------------------------------------------------------
(* Properties of digest and rewind synthesis                               *)

\* The sections of the reply that are JSON objects, in order.
ReplyDicts ==
    IF g_reply.kind = "object" /\ g_reply.sections.t = "list"
    THEN SelectSeq(g_reply.sections.v, LAMBDA sec : sec.t = "dict")
    ELSE <<>>

\* The reply is a JSON object in which every "article_ids" is a list (or
\* missing) without NaN.
ReplyReadable ==
    /\ g_reply.kind = "object"
    /\ \A j \in 1..Len(ReplyDicts) :
          /\ ReplyDicts[j].ids.t \in {"list", "absent"}
          /\ ReplyDicts[j].ids.t = "list" =>
                \A x \in 1..Len(ReplyDicts[j].ids.v) : ReplyDicts[j].ids.v[x].t # "nan"

\* The ids the claim expects for a list of JSON integers: the k-th article's
\* id for every k in 1..N, nothing for the others.
ExpectedIds(entries) ==
    LET in_range == SelectSeq(entries, LAMBDA e : e.v \in 1..Len(g_articles))
    IN  [x \in 1..Len(in_range) |-> g_articles[in_range[x].v]]

SeqRange(q) == {q[x] : x \in 1..Len(q)}

\* C17: in the digest returned over N articles, a section's 1-based indices
\* in 1..N are replaced by the ids of the articles at those positions, the
\* indices outside 1..N are dropped, and every section's article_ids is a
\* subset of the full id list returned.
C17_IndexRemap ==
    (g_pc = "returned" /\ g_articles # <<>>) =>
        /\ g_result.ids = g_articles
        /\ \A j \in 1..Len(g_result.content.sections) :
              SeqRange(g_result.content.sections[j].article_ids) \subseteq SeqRange(g_result.ids)
        /\ ReplyReadable =>
              /\ Len(g_result.content.sections) = Len(ReplyDicts)
              /\ \A j \in 1..Len(ReplyDicts) :
                    (/\ ReplyDicts[j].ids.t = "list"
                     /\ \A x \in 1..Len(ReplyDicts[j].ids.v) : ReplyDicts[j].ids.v[x].t = "int")
                        => g_result.content.sections[j].article_ids
                               = ExpectedIds(ReplyDicts[j].ids.v)

\* Over two articles the LLM listed the indices 2 and 3 in a section: the
\* section comes back with the id of the second article only.
C17_Witness ==
    /\ g_pc = "returned"
    /\ Len(g_articles) = 2
    /\ ReplyReadable
    /\ Len(ReplyDicts) = 1
    /\ ReplyDicts[1].ids = JList(<<Idx("int", 2), Idx("int", 3)>>)
    /\ g_result.content.sections[1].article_ids = <<g_articles[2]>>

\* C18: generate_daily_digest on a date without articles and
\* generate_rewind_report without liked articles return the empty sentinel
\* and make no LLM call.
C18_EmptyInputNoLlm ==
    /\ (g_pc \in {"llm", "returned", "raised"} /\ g_articles = <<>>) =>
          /\ g_pc = "returned"
          /\ g_result.content = NO_ARTICLES_DIGEST
          /\ g_result.ids = <<>>
          /\ g_calls = 0
    /\ (w_pc \in {"llm", "returned", "raised"} /\ w_liked = 0) =>
          /\ w_pc = "returned"
          /\ w_result.report = NO_ACTIVITY_REPORT
          /\ w_calls = 0

\* Both generators have returned on empty input.
C18_Witness ==
    /\ g_pc = "returned" /\ g_articles = <<>> /\ g_calls = 0
    /\ g_result.content = NO_ARTICLES_DIGEST
    /\ w_pc = "returned" /\ w_liked = 0 /\ w_calls = 0
    /\ w_result.report = NO_ACTIVITY_REPORT

\* C19: once the LLM has been called, neither generator raises; when every
\* attempt failed, or the reply is not JSON or not a JSON object, it returns
\* the empty sentinel.
C19_LlmFailureGivesSentinel ==
    /\ g_calls > 0 =>
          /\ g_pc = "returned"
          /\ g_reply.kind \in {"none", "invalid", "array"} =>
                g_result.content = NO_ARTICLES_DIGEST
    /\ w_calls > 0 =>
          /\ w_pc = "returned"
          /\ w_reply.kind \in {"none", "invalid", "array"} =>
                w_result.report = NO_ACTIVITY_REPORT

\* generate_daily_digest made all three attempts, none returned, and the
\* sentinel came back with the ids of the date's articles.
C19_Witness ==
    /\ g_pc = "returned"
    /\ g_calls = RETRY_MAX_RETRIES
    /\ g_reply = NoReply
    /\ g_result.content = NO_ARTICLES_DIGEST
    /\ g_result.ids = g_articles
    /\ Len(g_articles) = 2

\* C20: the generate endpoint answers 404 without calling the generator when
\* the date has no articles, answers 502 without writing when the generated
\* headline is empty, and no digest row ever has an empty headline.
C20_EndpointGuards ==
    /\ (e_pc = "answered" /\ g_articles = <<>>) =>
          /\ e_status = 404
          /\ g_pc = "idle" /\ g_calls = 0
          /\ e_digests \in {<<>>, <<OldDigest>>}
    /\ (e_pc = "answered" /\ g_pc = "returned" /\ g_result.content.headline = "") =>
          /\ e_status = 502
          /\ e_digests \in {<<>>, <<OldDigest>>}
    /\ e_status = 404 => g_articles = <<>>
    /\ \A i \in 1..Len(e_digests) : e_digests[i].content.headline # ""

\* The LLM wrote an object with an empty headline while an older digest row
\* existed: the endpoint answered 502 and the row is as it was.
C20_Witness ==
    /\ e_pc = "answered"
    /\ e_status = 502
    /\ g_reply.kind = "object"
    /\ g_reply.headline = JStr("")
    /\ g_calls = 1
    /\ e_digests = <<OldDigest>>

----------------------------------------------------------------------------
(* backend/routers/rewind.py: generate_rewind; backend/scheduler.py:       *)
(* run_weekly_rewind_for_all_users; backend/services/rewind.py:            *)
(* persist_rewind_report                                                   *)

\* The users of table "users"; the router serves the default user.
Users == {1, 2}
DefaultUsers == {1}

\* persist_rewind_report, lines 144-151: the row built from the report
RewindRow(id, user_id, period_end, report) ==
    [id |-> id, user_id |-> user_id, period_end |-> period_end,
     report_content |-> report, hot_topics |-> report.hot_topics,
     trend_changes |-> report.trend_changes]

SameKey(row, user_id, period_end) ==
    row.user_id = user_id /\ row.period_end = period_end

\* persist_rewind_report, line 153: a plain insert.  A table with a unique
\* (user_id, period_end) refuses a second row of the key and the call
\* raises; a table without one takes the row.
PersistRewindReport(reports, user_id, period_end, report, unique) ==
    IF unique /\ \E k \in DOMAIN reports : SameKey(reports[k], user_id, period_end)
    THEN [raised |-> TRUE, rows |-> reports]
    ELSE [raised |-> FALSE,
          rows |-> Append(reports, RewindRow(Len(reports) + 1, user_id, period_end, report))]

TriggerInit ==
    /\ y_mode = "trigger"
    /\ g_pc = "idle" /\ g_articles = <<>> /\ g_reply = NoReply /\ g_calls = 0
    /\ g_result = <<>>
    /\ e_pc = "idle" /\ e_status = 0 /\ e_digests = <<>>
    /\ w_pc = "idle" /\ w_liked = 0 /\ w_reply = NoRewindReply /\ w_calls = 0
    /\ w_result = <<>>
    /\ t_pc = "idle" /\ t_surface = "none" /\ t_user_id = 1 /\ t_period_end = 1
    /\ t_unique \in BOOLEAN
    /\ t_reports = <<>> /\ t_outcome = "none" /\ t_runs = 0
    /\ RetryIdle /\ ScorerIdle /\ FilterIdle /\ PipeIdle /\ InterestIdle
    /\ LikesIdle /\ LoopIdle /\ RaceIdle /\ ParserIdle

\* A trigger arrives: POST /api/rewind/generate for the default user
\* (routers/rewind.py:102-109), or the weekly job reaches a user of its loop
\* (scheduler.py:121-127); the period ends today.
TriggerStart ==
    /\ t_pc \in {"idle", "answered"}
    /\ t_runs < MaxTriggers
    /\ \E surface \in {"router", "scheduler"}, user_id \in Users,
          period_end \in {d \in Days : d >= t_period_end}, liked \in 0..1 :
          /\ surface = "router" => user_id \in DefaultUsers
          /\ t_surface' = surface
          /\ t_user_id' = user_id
          /\ t_period_end' = period_end
          /\ w_liked' = liked
    /\ t_pc' = "generating"
    /\ t_outcome' = "none"
    /\ t_runs' = t_runs + 1
    /\ w_pc' = "query" /\ w_reply' = NoRewindReply /\ w_calls' = 0 /\ w_result' = <<>>
    /\ UNCHANGED <<y_mode, digestVars, endpointVars, t_unique, t_reports>>
    /\ UNCHANGED exceptTrigger

\* Once generate_rewind_report is back: persist_rewind_report, whatever the
\* report holds, then the answer.  The router lets an exception through
\* (HTTP 500) and answers 201 otherwise (routers/rewind.py:109-117); the
\* weekly job logs "Weekly rewind complete", or "Rewind failed" in its
\* except branch (scheduler.py:126-139).
TriggerPersist ==
    /\ t_pc = "generating"
    /\ w_pc \in {"returned", "raised"}
    /\ LET stored == IF w_pc = "raised"
                     THEN [raised |-> TRUE, rows |-> t_reports]
                     ELSE PersistRewindReport(t_reports, t_user_id, t_period_end,
                                              w_result.report, t_unique)
       IN  /\ t_reports' = stored.rows
           /\ t_outcome' = IF t_surface = "router"
                           THEN (IF stored.raised THEN "500" ELSE "201")
                           ELSE (IF stored.raised THEN "failed" ELSE "complete")
    /\ t_pc' = "answered"
    /\ UNCHANGED <<synthVars, t_surface, t_user_id, t_period_end, t_unique, t_runs>>
    /\ UNCHANGED exceptTrigger

TriggerNext == TriggerStart \/ RewindQuery \/ RewindLlm \/ TriggerPersist

SpecTrigger == TriggerInit /\ [][TriggerNext]_vars

----------------------------------------------------------------------------
(* Properties of the rewind trigger surface                                *)

\* The trigger has answered for a report the generator returned.
TriggerAnswered == t_pc = "answered" /\ w_pc = "returned"

\* C21: when rewind synthesis yields the empty sentinel, the trigger surface
\* reports a generation-specific failure: neither a created report (201, or
\* the job's "complete") nor not-found.
C21_RewindSentinelReported ==
    (TriggerAnswered /\ w_result.report = NO_ACTIVITY_REPORT)
        => t_outcome \notin {"201", "complete", "404"}

\* C22: the store holds at most one rewind report per (user, period_end),
\* and a trigger that generated a report for a key leaves that report as
\* the key's row.
C22_OneReportPerKey ==
    /\ \A i, j \in DOMAIN t_reports :
          SameKey(t_reports[i], t_reports[j].user_id, t_reports[j].period_end) => i = j
    /\ (TriggerAnswered /\ w_result.report # NO_ACTIVITY_REPORT)
          => \E k \in DOMAIN t_reports :
                /\ SameKey(t_reports[k], t_user_id, t_period_end)
                /\ t_reports[k].report_content = w_result.report

----------------------------------------------------------------------------
(* backend/routers/articles.py: toggle_like, one store operation at a      *)
(* time.  The handler has no transaction: its query of the like rows, its  *)
(* insert or delete, the read of the interest rows and each upsert are     *)
(* separate calls to the store, and the server's workers handle requests   *)
(* side by side.  Requests for one article are serialized by the caller.   *)

Workers == {1, 2}

IdleReq ==
    [pc |-> "idle", article_id |-> 0, found |-> FALSE, existing |-> <<>>, i |-> 0,
     before |-> <<>>]

InFlight(req) == req.pc \notin {"idle", "done"}

LikeFoundNever(rows) == FALSE

\* toggle_like, line 180: `if existing_rows`
LikeFound(rows) == rows > 0

LikesInit ==
    /\ i_now = 0
    /\ i_store \in [Keywords -> {Absent} \cup
                        {Row(w, u) : w \in InitWeights, u \in InitStamps}]
    /\ i_liked = {}
    /\ i_hist = <<>>
    /\ l_req = [p \in Workers |-> IdleReq]
    /\ l_rows = [a \in Articles |-> 0]
    /\ l_reqs = [a \in Articles |-> 0]
    /\ l_started = 0
    /\ l_overlap = FALSE
    /\ l_store0 = i_store
    /\ RetryIdle /\ ScorerIdle /\ FilterIdle /\ PipeIdle /\ SynthIdle
    /\ TriggerIdle /\ LoopIdle /\ RaceIdle /\ ParserIdle

\* A worker takes a request for an article no other worker is handling; the
\* answers of the finished requests have been sent.
LikeArrive(p) ==
    /\ ~InFlight(l_req[p])
    /\ l_started < MaxLikeRequests
    /\ \E article_id \in Articles :
          /\ \A q \in Workers : InFlight(l_req[q]) => l_req[q].article_id # article_id
          /\ l_req' = [q \in Workers |->
                          IF q = p
                          THEN [IdleReq EXCEPT !.pc = "check", !.article_id = article_id,
                                               !.before = i_store]
                          ELSE IF InFlight(l_req[q]) THEN l_req[q] ELSE IdleReq]
    /\ l_overlap' = (l_overlap \/ \E q \in Workers : InFlight(l_req[q]))
    /\ l_started' = l_started + 1
    /\ UNCHANGED <<interestVars, l_rows, l_reqs, l_store0>>
    /\ UNCHANGED exceptLikes

\* toggle_like, lines 168-178: the article exists; the query of its like rows
LikeCheck(p) ==
    /\ l_req[p].pc = "check"
    /\ l_req' = [l_req EXCEPT ![p].found = LikeFound(l_rows[l_req[p].article_id]),
                              ![p].pc = "write"]
    /\ UNCHANGED <<interestVars, l_rows, l_reqs, l_started, l_overlap, l_store0>>
    /\ UNCHANGED exceptLikes

\* toggle_like, line 182 (the delete of the row found) or lines 192-196 (the
\* insert of a like row)
LikeWrite(p) ==
    /\ l_req[p].pc = "write"
    /\ l_rows' = [l_rows EXCEPT ![l_req[p].article_id] =
                      IF l_req[p].found THEN (IF @ > 0 THEN @ - 1 ELSE 0) ELSE @ + 1]
    /\ l_req' = [l_req EXCEPT ![p].pc = "fetch"]
    /\ UNCHANGED <<interestVars, l_reqs, l_started, l_overlap, l_store0>>
    /\ UNCHANGED exceptLikes

\* update_interests_on_like, lines 37-51, and remove_interests_on_unlike,
\* lines 92-101: the article's keywords (none: return) and the snapshot
\* `existing`
LikeFetch(p) ==
    /\ l_req[p].pc = "fetch"
    /\ LET article_id == l_req[p].article_id
           keywords == ArticleKeywords(article_id)
       IN  IF keywords = <<>>
           THEN /\ l_req' = [l_req EXCEPT ![p].pc = "done"]
                /\ l_reqs' = [l_reqs EXCEPT ![article_id] = @ + 1]
           ELSE /\ l_req' = [l_req EXCEPT
                                ![p].existing = FetchUserInterestsByKeywords(i_store, keywords),
                                ![p].i = 1,
                                ![p].pc = "upsert"]
                /\ l_reqs' = l_reqs
    /\ UNCHANGED <<interestVars, l_rows, l_started, l_overlap, l_store0>>
    /\ UNCHANGED exceptLikes

\* One iteration of the loop of update_interests_on_like (lines 53-65) or of
\* remove_interests_on_unlike (lines 103-123); after the last one the
\* request is answered.
LikeUpsert(p) ==
    /\ l_req[p].pc = "upsert"
    /\ LET req == l_req[p]
           keywords == ArticleKeywords(req.article_id)
           keyword == keywords[req.i]
       IN  /\ i_store' =
                 IF ~req.found
                 THEN [i_store EXCEPT ![keyword] = LikedRow(i_store, req.existing, keyword, i_now)]
                 ELSE IF ~req.existing[keyword].present THEN i_store
                 ELSE [i_store EXCEPT ![keyword] = UnlikedRow(req.existing[keyword], i_now)]
           /\ IF req.i = Len(keywords)
              THEN /\ l_req' = [l_req EXCEPT ![p].pc = "done"]
                   /\ l_reqs' = [l_reqs EXCEPT ![req.article_id] = @ + 1]
              ELSE /\ l_req' = [l_req EXCEPT ![p].i = @ + 1]
                   /\ l_reqs' = l_reqs
    /\ UNCHANGED <<i_now, i_liked, i_hist, l_rows, l_started, l_overlap, l_store0>>
    /\ UNCHANGED exceptLikes

LikesNext ==
    \E p \in Workers :
        LikeArrive(p) \/ LikeCheck(p) \/ LikeWrite(p) \/ LikeFetch(p) \/ LikeUpsert(p)

SpecLikes == LikesInit /\ [][LikesNext]_vars

----------------------------------------------------------------------------
(* Properties of toggle_like                                               *)

KeywordSet(article_id) ==
    {ArticleKeywords(article_id)[i] : i \in 1..Len(ArticleKeywords(article_id))}

WeightOf(row) == IF row.present THEN row.weight ELSE 0

Quiet == \A p \in Workers : ~InFlight(l_req[p])

\* C26: with the requests of one article serialized, no update is lost: once
\* like requests on different articles are answered, each keyword's weight
\* is its first weight plus the increment for every like that carried it.
C26_NoLostUpdate ==
    (Quiet /\ \A a \in Articles : l_reqs[a] <= 1) =>
        \A k \in Keywords :
            WeightOf(i_store[k]) =
                WeightOf(l_store0[k]) + LIKE_WEIGHT_INCREMENT *
                    Cardinality({a \in Articles : l_reqs[a] = 1 /\ k \in KeywordSet(a)})

\* C29: while toggle_like requests come one after the other, an article
\* has at most one like row, it has one exactly after an odd number of
\* requests, a request that created the row has added the increment once to
\* each keyword of the article, and a request that removed the row has
\* subtracted it once (deleting a row that would reach zero or less).
C29_ToggleAlternates ==
    ~l_overlap =>
        /\ \A a \in Articles : l_rows[a] <= 1
        /\ \A a \in Articles :
              (\A p \in Workers : InFlight(l_req[p]) => l_req[p].article_id # a)
                  => l_rows[a] = l_reqs[a] % 2
        /\ \A p \in Workers :
              l_req[p].pc = "done" =>
                  LET req == l_req[p]
                  IN  /\ req.found = (l_rows[req.article_id] = 0)
                      /\ \A k \in Keywords :
                            i_store[k] =
                                IF k \notin KeywordSet(req.article_id) THEN req.before[k]
                                ELSE IF ~req.found
                                THEN Row(WeightOf(req.before[k]) + LIKE_WEIGHT_INCREMENT, i_now)
                                ELSE IF ~req.before[k].present THEN Absent
                                ELSE IF req.before[k].weight - LIKE_WEIGHT_INCREMENT <= 0
                                THEN Absent
                                ELSE Row(req.before[k].weight - LIKE_WEIGHT_INCREMENT, i_now)

\* Three requests for article 1 have come one after the other: like,
\* unlike, like.
C29_Witness ==
    /\ ~l_overlap
    /\ l_reqs[1] = 3
    /\ l_rows[1] = 1
    /\ \E p \in Workers : l_req[p].pc = "done" /\ l_req[p].article_id = 1

----------------------------------------------------------------------------
(* The response parsers on their own: _parse_scoring_response,             *)
(* _parse_detailed_summary (backend/services/summarizer.py),               *)
(* _parse_digest_response and _parse_rewind_response                       *)

\* _fallback_detailed_summary: the raw text, stripped, as the background
FallbackDetailedSummary(text) ==
    [background |-> text, takeaways |-> <<>>, keywords |-> <<>>]

\* What json.loads makes of a detailed-summary reply: nothing (invalid
\* JSON), an array, or an object.
DetailedReplies ==
    {[kind |-> "invalid", background |-> JAbsent, takeaways |-> JAbsent, keywords |-> JAbsent],
     [kind |-> "array", background |-> JAbsent, takeaways |-> JAbsent, keywords |-> JAbsent]}
        \cup {[kind |-> "object", background |-> bg, takeaways |-> tk, keywords |-> kw] :
                bg \in {JAbsent, JStr("bg"), JNum(7), JNum(0)},
                tk \in {JAbsent, JStr("t"), JList(<<JStr("t"), JNum(1)>>)},
                kw \in {JAbsent, JList(<<JStr("k")>>)}}

\* _parse_detailed_summary, lines 239-240: a background that is no str
\* becomes str(background) when truthy and "" otherwise
DetailedBackground(background) ==
    IF background.t = "str" THEN background.v
    ELSE IF background.t = "absent" \/ (background.t = "num" /\ background.v = 0) THEN ""
    ELSE PyStr(background)

\* _parse_detailed_summary: the summary, or an exception that escapes (an
\* array has no .get: AttributeError)
ParseDetailedSummary(reply) ==
    IF reply.kind = "invalid"
    THEN [raised |-> FALSE, summary |-> FallbackDetailedSummary("<raw text>")]
    ELSE IF reply.kind = "array"
    THEN [raised |-> TRUE, summary |-> FallbackDetailedSummary("")]
    ELSE [raised |-> FALSE,
          summary |-> [background |-> DetailedBackground(reply.background),
                       takeaways |-> StrListOrEmpty(reply.takeaways),
                       keywords |-> StrListOrEmpty(reply.keywords)]]

\* The texts handed to _parse_scoring_response: out of shape, or one entry
\* for the first article with each of the contents.
ScoringReplies ==
    {ScorerTextOrEmpty(t) : t \in UnshapedTexts}
        \cup {ShapedText(<<c>>, <<1>>) : c \in 1..NumContents}

ParserReplies(parser) ==
    CASE parser = "scoring" -> ScoringReplies
      [] parser = "detailed" -> DetailedReplies
      [] parser = "digest" -> DigestReplies(MaxDigestArticles)
      [] OTHER -> RewindReplies

ParserInit ==
    /\ x_pc = "input"
    /\ x_parser \in {"scoring", "detailed", "digest", "rewind"}
    /\ x_batch_size \in IF x_parser = "scoring" THEN 1..MaxBatch ELSE {0}
    /\ x_reply \in ParserReplies(x_parser)
    /\ x_out = <<>>
    /\ RetryIdle /\ ScorerIdle /\ FilterIdle /\ PipeIdle /\ InterestIdle /\ SynthIdle
    /\ TriggerIdle /\ LikesIdle /\ LoopIdle /\ RaceIdle

\* The parser is called on the text.
ParseReply ==
    /\ x_pc = "input"
    /\ x_out' = CASE x_parser = "scoring" -> ParseScoringResponse(x_reply, x_batch_size)
                  [] x_parser = "detailed" -> ParseDetailedSummary(x_reply)
                  [] x_parser = "digest" -> ParseDigestResponse(x_reply)
                  [] OTHER -> ParseRewindResponse(x_reply)
    /\ x_pc' = "parsed"
    /\ UNCHANGED <<x_parser, x_batch_size, x_reply>>
    /\ UNCHANGED exceptParser

ParserNext == ParseReply

SpecParsers == ParserInit /\ [][ParserNext]_vars

----------------------------------------------------------------------------
(* Properties of the response parsers                                      *)

\* C25: whatever the LLM returned, the scoring, detailed-summary, digest
\* and rewind parsers raise no exception.
C25_ParsersNeverRaise ==
    x_pc = "parsed" => ~x_out.raised

----------------------------------------------------------------------------
(* One asyncio event loop running pipeline runs.  A coroutine keeps the    *)
(* loop until it awaits something that suspends it; a synchronous call     *)
(* keeps the loop for as long as the call waits.                           *)

Tasks == {1, 2}

\* The I/O operations of a run.
\* _stage_collect: collector.py:77-83 (feeds query), 98 (GET of the feed),
\* 46 (_update_last_fetched), 140-148 (_deduplicate)
CollectOps == <<"feeds_query", "feed_get", "feed_stamp", "dedup_query">>
\* _stage_load_interests: pipeline.py:119-138
LoadOps == <<"user_query", "interests_query">>
\* scorer.py:187-236, _call_gemini_with_retry: a call, or calls with the
\* backoff sleeps between them
ScoreOps ==
    {<<"score_llm">>, <<"score_llm", "score_sleep", "score_llm">>,
     <<"score_llm", "score_sleep", "score_llm", "score_sleep", "score_llm">>}
\* summarizer.py:86-133, _call_gemini_with_retry
SummaryOps == {<<"summary_llm">>, <<"summary_llm", "summary_sleep", "summary_llm">>}
\* _stage_persist: pipeline.py:278
PersistOps == <<"insert">>

\* run_daily_pipeline: a run that stops after collection, a run whose
\* filter keeps nothing, and a run with one article to summarize and persist
RunPrograms ==
    {CollectOps}
        \cup {CollectOps \o LoadOps \o sc : sc \in ScoreOps}
        \cup {CollectOps \o LoadOps \o sc \o su \o PersistOps :
                sc \in ScoreOps, su \in SummaryOps}

LlmCalls == {"score_llm", "summary_llm"}
PersistenceCalls ==
    {"feeds_query", "feed_stamp", "dedup_query", "user_query", "interests_query", "insert"}
BackoffSleeps == {"score_sleep", "summary_sleep"}

\* The operations made with `await` on a coroutine that suspends:
\* `await http_client.get(url)` (collector.py:98), `await
\* client.aio.models.generate_content(...)` (scorer.py:209) and `await
\* asyncio.sleep(delay)` (scorer.py:228, summarizer.py:126).  The summarizer
\* calls client.models.generate_content (summarizer.py:109) and every store
\* query ends in a synchronous .execute().
Awaited == {"feed_get", "score_llm", "score_sleep", "summary_sleep"}

HoldsLoop(t) == k_state[t] \in {"running", "blocked"}

LoopInit ==
    /\ k_prog \in [Tasks -> RunPrograms]
    /\ k_pc = [t \in Tasks |-> 1]
    /\ k_state = [t \in Tasks |-> "ready"]
    /\ RetryIdle /\ ScorerIdle /\ FilterIdle /\ PipeIdle /\ InterestIdle /\ SynthIdle
    /\ TriggerIdle /\ LikesIdle /\ RaceIdle /\ ParserIdle

\* The loop hands control to a task that is ready, when no task holds it.
LoopResume(t) ==
    /\ k_state[t] = "ready"
    /\ \A u \in Tasks : ~HoldsLoop(u)
    /\ k_state' = [k_state EXCEPT ![t] = "running"]
    /\ UNCHANGED <<k_prog, k_pc>>
    /\ UNCHANGED exceptLoop

\* The running task starts its next operation: an awaited one suspends it
\* and frees the loop, a synchronous one waits inside the call.
LoopStartOp(t) ==
    /\ k_state[t] = "running"
    /\ k_pc[t] <= Len(k_prog[t])
    /\ k_state' = [k_state EXCEPT ![t] =
                       IF k_prog[t][k_pc[t]] \in Awaited THEN "suspended" ELSE "blocked"]
    /\ UNCHANGED <<k_prog, k_pc>>
    /\ UNCHANGED exceptLoop

\* The operation a task waits for completes.
LoopFinishOp(t) ==
    /\ k_state[t] \in {"blocked", "suspended"}
    /\ k_pc' = [k_pc EXCEPT ![t] = @ + 1]
    /\ k_state' = [k_state EXCEPT ![t] = IF @ = "blocked" THEN "running" ELSE "ready"]
    /\ UNCHANGED k_prog
    /\ UNCHANGED exceptLoop

\* run_daily_pipeline returns.
LoopReturn(t) ==
    /\ k_state[t] = "running"
    /\ k_pc[t] > Len(k_prog[t])
    /\ k_state' = [k_state EXCEPT ![t] = "done"]
    /\ UNCHANGED <<k_prog, k_pc>>
    /\ UNCHANGED exceptLoop

LoopNext ==
    \E t \in Tasks : LoopResume(t) \/ LoopStartOp(t) \/ LoopFinishOp(t) \/ LoopReturn(t)

SpecLoop == LoopInit /\ [][LoopNext]_vars

\* C27: while a run waits on an LLM call, a persistence call or a backoff
\* sleep, the loop is free, so a task that is ready can take a step.
C27_WaitsYield ==
    \A t \in Tasks :
        (/\ k_state[t] \in {"blocked", "suspended"}
         /\ k_prog[t][k_pc[t]] \in LlmCalls \cup PersistenceCalls \cup BackoffSleeps)
            => \A u \in Tasks : ~HoldsLoop(u)

----------------------------------------------------------------------------
(* Two calls of run_daily_pipeline for one date, under way at once         *)

Runs == {1, 2}

\* The links the feeds carry while the runs are under way.
RaceUrls == {"a", "b", "c", "d"}

\* What one collection fetches: the feeds may have changed in between.
RaceRawLists == {<<>>, <<"a", "b">>, <<"c", "d">>, <<"a", "c">>}

RaceSettings ==
    {[relevance_threshold |-> th, max_articles_per_newsletter |-> cap,
      scoring_batch_size |-> b] :
        th \in PipelineThresholds, cap \in PipelineCaps, b \in 1..MaxBatch}

RaceInit ==
    /\ c_db = <<>>
    /\ c_settings \in RaceSettings
    /\ c_run = [r \in Runs |-> [pc |-> "collect", collected |-> <<>>,
                                 summarized |-> <<>>, raced |-> FALSE]]
    /\ RetryIdle /\ ScorerIdle /\ FilterIdle /\ PipeIdle /\ InterestIdle /\ SynthIdle
    /\ TriggerIdle /\ LikesIdle /\ LoopIdle /\ ParserIdle

\* run_daily_pipeline, lines 55-65: stage 1 and the short-circuit
RaceCollect(r) ==
    /\ c_run[r].pc = "collect"
    /\ \E raw \in RaceRawLists :
          LET articles == CollectArticles(c_db, raw)
          IN  c_run' = [c_run EXCEPT
                          ![r].collected = articles,
                          ![r].raced = \E o \in Runs \ {r} :
                                          c_run[o].pc \in {"score", "persist"},
                          ![r].pc = IF ShortCircuit(articles) THEN "done" ELSE "score"]
    /\ UNCHANGED <<c_db, c_settings>>
    /\ UNCHANGED exceptRace

\* Lines 70-77: stages 3 to 5
RaceScore(r) ==
    /\ c_run[r].pc = "score"
    /\ \E results \in [1..Len(c_run[r].collected) -> ScoreOutputs] :
          LET n == Len(c_run[r].collected)
              merged == MergeScores(c_run[r].collected, ScoreResults(FALSE, results, n))
              kept == StageFilter(merged, c_settings.relevance_threshold,
                                  c_settings.max_articles_per_newsletter)
          IN  c_run' = [c_run EXCEPT
                          ![r].summarized =
                              [k \in 1..Len(kept) |->
                                  [source_url |-> kept[k].source_url,
                                   relevance_score |-> kept[k].relevance_score,
                                   summary |-> ArticleSummary(kept[k].source_url, TRUE)]],
                          ![r].pc = "persist"]
    /\ UNCHANGED <<c_db, c_settings>>
    /\ UNCHANGED exceptRace

\* Line 80: stage 6
RacePersist(r) ==
    /\ c_run[r].pc = "persist"
    /\ c_db' = PersistRows(c_db, c_run[r].summarized, 1, {}, 1).db
    /\ c_run' = [c_run EXCEPT ![r].pc = "done"]
    /\ UNCHANGED c_settings
    /\ UNCHANGED exceptRace

RaceNext == \E r \in Runs : RaceCollect(r) \/ RaceScore(r) \/ RacePersist(r)

SpecRace == RaceInit /\ [][RaceNext]_vars

\* C24: two runs for one date that were under way at once leave at most
\* the cap plus one scoring batch of rows for the date.
C24_OverfillWithinBatch ==
    ((\E r \in Runs : c_run[r].raced) /\ \A r \in Runs : c_run[r].pc = "done") =>
        Len(c_db) <= c_settings.max_articles_per_newsletter + c_settings.scoring_batch_size

====
